---------------------------- MODULE Spec2Model ----------------------------
(***************************************************************************)
(* Model of the log-analytics client and of the server of                  *)
(* notaspork/linuxexamples (src/basic/ClientPython.py,                     *)
(* src/basic/DataStructuresPython.py, src/basic/ServerPython.py).          *)
(*                                                                         *)
(* Text is modelled at character level: a Python str is a sequence of      *)
(* one-character strings, and the mirror file query_log.txt is the         *)
(* sequence of characters it holds, so that the in-place rewrite of the    *)
(* counter line, the append, readlines() and truncate() are modelled by    *)
(* what they do to the bytes of the file.  Bytes on the wire are the       *)
(* integers 0..255, produced and consumed as struct.pack and struct.unpack *)
(* do.                                                                     *)
(*                                                                         *)
(* Specifications: Spec and SpecFault (do_menu, choices 2 to 7),           *)
(* FilterSpec (apply_filter), PQSpec (ds.PriorityQueue), UploadSpec        *)
(* (choice 1: load_file_data, upload_logs), WireSpec (recv_log_entry on    *)
(* the bytes of send_log_entry), ThreadSpec and ThreadFairSpec (the        *)
(* threads of handle_new_connections_threads), ServerSpec and              *)
(* ServerFairSpec (the five strategies of the server and the peers of      *)
(* their connections), PoolSpec and PoolFairSpec (the executor of          *)
(* handle_new_connections_thread_pool and its shutdown), HashSpec          *)
(* (ds.HashTable) and StackSpec (ds.Stack.popMany).  Each leaves the       *)
(* variables of the others at their idle values.                           *)
(***************************************************************************)
EXTENDS Integers, Sequences, FiniteSets, TLC

(***************************************************************************)
(* Bounds of the model.                                                    *)
(***************************************************************************)
\* Deepest history stack the menu is driven to.
MaxDepth == 3
\* Mirror-file I/O errors injected in one run (SpecFault only).
MaxFaults == 1
\* Longest record list handed to apply_filter (FilterSpec).
MaxRecords == 2
\* Most clauses in a generated filter query (FilterSpec).
MaxClauses == 2
\* Most enqueue calls in one run of the priority queue (PQSpec).
MaxEnqueue == 4
\* Largest priority number handed to enqueue (PQSpec).
MaxPriority == 3
\* Most lines in a generated log file (UploadSpec).
MaxLines == 3
\* Connections accepted in one run of the threads strategy (ThreadSpec).
MaxHandlers == 2
\* Messages received past the notification threshold (ThreadSpec).
MaxExtra == 1
\* Connections made to the server in one run (ServerSpec).
MaxConns == 2
\* Bytes the clients send in one run, over all connections (ServerSpec).
MaxBytes == 3
\* Most bytes one send of a peer writes (ServerSpec).
MaxWrite == 2
\* Connections the thread-pool strategy accepts in one run (PoolSpec).
MaxTasks == 11
\* Largest bucket count of a hash table (HashSpec).
MaxBuckets == 2
\* Largest hash(key) of a key (HashSpec).
MaxHash == 2
\* Deepest stack popMany is called on (StackSpec).
MaxStack == 3

(***************************************************************************)
(* Constants of the program.                                               *)
(***************************************************************************)
\* ServerPython.py line 60: if messageCounter == 100
THRESHOLD == 100
\* ClientPython.py line 103: SERVER_COMMANDS.QUERY_CMD
QUERY_CMD == 2
\* ServerPython.py line 215: ThreadPoolExecutor(max_workers=10)
max_workers == 10

VARIABLES
  \* do_menu and the module-level filterStack (ClientPython.py)
  filterStack,      \* ds.Stack(): sequence of <<results, filter string>>
  curResults,       \* list of log entries
  curFilterString,  \* str
  queryLog,         \* query_log.txt: [exists, data]
  lastOp,           \* the menu choice handled last ("exit": do_menu returned)
  lastMsg,          \* what that choice reported: "" (nothing), "No filters to
                    \* undo", "Invalid choice. Please try again." or "Error"
  faults,           \* mirror-file I/O errors injected so far
  pushSnap,         \* history: filterStack and queryLog as the last push found
                    \* them, kept over the undo that directly follows it,
                    \* with the filter string pushed
  \* one call of apply_filter on generated inputs
  fRecords,         \* the results argument
  fClauses,         \* the clauses the query text was written from
  fQuery,           \* the filter_query argument
  fResult,          \* what the call returned or raised
  fpc,              \* "idle", "ready" or "done"
  \* one ds.PriorityQueue() driven by enqueue and dequeue calls
  queue,            \* self.queue: sequence of <<item, priority>>
  pqCount,          \* enqueue calls so far; the next item is pqCount + 1
  pqOut,            \* history: the pairs returned since the last enqueue
  pqRaised,         \* the last call raised IndexError
  \* menu choice 1: load_file_data on a generated file, then upload_logs
  upLines,          \* the lines "for line in file" yields
  upPos,            \* lines handled so far
  logs,             \* ds.PriorityQueue().queue of load_file_data
  upSkipped,        \* 'Invalid log line' diagnostics printed so far
  wire,             \* the bytes written to the socket
  upMsg,            \* "" or "Error" (do_menu's except Exception)
  upPc,             \* "idle", "load" or "done"
  \* one call of recv_log_entry on a connection whose peer sent one entry
  rxEntry,          \* the logEntry the peer handed to send_log_entry
  rxDelivered,      \* history: the bytes the peer wrote before it closed
  rxStream,         \* the bytes of them sock.recv has not returned yet
  rxData,           \* recv_all: data
  rxLengths,        \* recv_log_entry: lengths_data
  rxBody,           \* recv_log_entry: data
  rxResult,         \* the logEntry returned, <<>> before
  rxSplit,          \* history: some recv returned fewer bytes than asked
  rxPc,             \* "idle", "lengths", "body", "done" or "EOFError"
  \* handle_new_connections_threads (ServerPython.py)
  messageCounter,   \* the global messageCounter
  messageCounterLock, \* the thread holding the lock, FREE if none
  condition,        \* the thread holding the lock of condition, FREE if none
  hPc,              \* position of each handle_client thread
  hNextCount,       \* nextCount of each handle_client thread
  wPc,              \* position of the notify_100 thread
  wOut,             \* what notify_100 printed: "", "released" or "error"
  notifications,    \* history: messageCounter at each notify_all() call
  processed,        \* history: assignments to messageCounter (line 59)
  \* one server strategy, its connections and their peers (ServerPython.py)
  strategy,         \* "simple", "threads", "select", "poll" or "pool"
  srvPc,            \* the strategy's own loop: "idle", "accept", "handling",
                    \* "loop", "draining", "returned" or "raised"
  cState,           \* each peer: "none", "open", "shut" (sending side
                    \* closed) or "reset" (the transport failed)
  urgent,           \* peers that sent urgent data not yet read
  inbox,            \* bytes each peer sent that recv has not returned yet
  sentLog,          \* history: all bytes each peer sent
  got,              \* history: all bytes each peer was sent back
  sock,             \* each connection's socket on the server: "none",
                    \* "backlog", "open" or "closed"
  hdl,              \* position of each handle_client call
  hData,            \* data of each handle_client call
  inputs,           \* select: inputs (LISTENER is the listening socket)
  outputs,          \* select: outputs
  message_queues,   \* select, poll: message_queues
  fd_to_socket,     \* poll: the keys of fd_to_socket
  registered,       \* poll: the event mask each socket is registered with
  ready,            \* what select.select or poller.poll returned, as far
                    \* as the round has not handled it yet
  \* the ThreadPoolExecutor of handle_new_connections_thread_pool
  poolPc,           \* "idle", "accept", "draining" or "returned"
  work_queue,       \* submitted handle_client calls no worker has taken:
                    \* [open, eof], counted by whether the peer has closed
  workers,          \* handle_client calls running in a worker: [open, eof]
  finished,         \* handle_client calls that have returned
  \* one ds.HashTable(buckets) driven by insert calls
  table,            \* self.table: per bucket None or a list of <<key, value>>
  hashOf,           \* hash(key) of each key, fixed for the process
  inserted,         \* history: the value last handed to insert, per key
  \* one ds.Stack() driven by push and popMany calls
  stItems,          \* self.stack of that Stack
  popArg,           \* history: <<n>> after popMany(n), <<>> before any call
  popResult         \* what the last popMany returned

menuVars == <<filterStack, curResults, curFilterString, queryLog,
              lastOp, lastMsg, faults, pushSnap>>
filterVars == <<fRecords, fClauses, fQuery, fResult, fpc>>
pqVars == <<queue, pqCount, pqOut, pqRaised>>
\* What a specification of one part of the program leaves alone.
upVars == <<upLines, upPos, logs, upSkipped, wire, upMsg, upPc>>
rxVars == <<rxEntry, rxDelivered, rxStream, rxData, rxLengths, rxBody,
            rxResult, rxSplit, rxPc>>
thrVars == <<messageCounter, messageCounterLock, condition, hPc,
             hNextCount, wPc, wOut, notifications, processed>>
\* thrVars without the global messageCounter, which every strategy counts in.
thrRest == <<messageCounterLock, condition, hPc, hNextCount, wPc, wOut,
             notifications, processed>>
srvVars == <<strategy, srvPc, cState, urgent, inbox, sentLog, got, sock, hdl,
             hData, inputs, outputs, message_queues, fd_to_socket,
             registered, ready>>
poolVars == <<poolPc, work_queue, workers, finished>>
htVars == <<table, hashOf, inserted>>
stVars == <<stItems, popArg, popResult>>
\* The executor, the hash table and the stack driven on their own.
dsVars == <<poolVars, htVars, stVars>>
nonMenuVars == <<filterVars, pqVars, upVars, rxVars, thrVars, srvVars,
    dsVars>>
nonFilterVars == <<menuVars, pqVars, upVars, rxVars, thrVars, srvVars,
    dsVars>>
nonPQVars == <<menuVars, filterVars, upVars, rxVars, thrVars, srvVars,
    dsVars>>
nonUpVars == <<menuVars, filterVars, pqVars, rxVars, thrVars, srvVars,
    dsVars>>
nonRxVars == <<menuVars, filterVars, pqVars, upVars, thrVars, srvVars,
    dsVars>>
nonThrVars == <<menuVars, filterVars, pqVars, upVars, rxVars, srvVars,
    dsVars>>
\* What the strategies leave alone; they all count in messageCounter.
nonSrvVars == <<menuVars, filterVars, pqVars, upVars, rxVars, thrRest,
               dsVars>>
\* What the executor, the hash table and the stack leave alone.
appVars == <<menuVars, filterVars, pqVars, upVars, rxVars, thrVars, srvVars>>
vars == <<appVars, dsVars>>

(***************************************************************************)
(* Python str helpers.                                                     *)
(***************************************************************************)
NL == "\n"

Letters ==
  {"a","b","c","d","e","f","g","h","i","j","k","l","m",
   "n","o","p","q","r","s","t","u","v","w","x","y","z",
   "A","B","C","D","E","F","G","H","I","J","K","L","M",
   "N","O","P","Q","R","S","T","U","V","W","X","Y","Z"}

DigitChars == <<"0","1","2","3","4","5","6","7","8","9">>

IsDigit(c) == \E d \in 1..10 : DigitChars[d] = c

DigitVal(c) == (CHOOSE d \in 1..10 : DigitChars[d] = c) - 1

\* str.strip() strips whitespace from both ends.
IsSpace(c) == c \in {" ", NL}

\* s[n:] for n >= 0
DropFirst(s, n) == IF n >= Len(s) THEN <<>> ELSE SubSeq(s, n + 1, Len(s))

RECURSIVE LStrip(_)
LStrip(s) ==
  IF s /= <<>> /\ IsSpace(s[1]) THEN LStrip(Tail(s)) ELSE s

RECURSIVE RStrip(_)
RStrip(s) ==
  IF s /= <<>> /\ IsSpace(s[Len(s)]) THEN RStrip(SubSeq(s, 1, Len(s) - 1)) ELSE s

Strip(s) == RStrip(LStrip(s))

\* str(n) for an int n >= 0
RECURSIVE PyStr(_)
PyStr(n) ==
  IF n < 10 THEN <<DigitChars[n + 1]>>
  ELSE PyStr(n \div 10) \o <<DigitChars[(n % 10) + 1]>>

RECURSIVE DigitsValue(_)
DigitsValue(s) ==
  IF s = <<>> THEN 0
  ELSE 10 * DigitsValue(SubSeq(s, 1, Len(s) - 1)) + DigitVal(s[Len(s)])

IsDecimal(s) == s /= <<>> /\ \A i \in 1..Len(s) : IsDigit(s[i])

\* int(s): the value, or ValueError. Only unsigned decimal text converts here;
\* the counter line of the mirror file holds no sign or underscore forms.
PyInt(s) ==
  IF IsDecimal(s) THEN [ok |-> TRUE, val |-> DigitsValue(s)]
  ELSE [ok |-> FALSE, val |-> 0]

\* int(s) for the fields of a log line: surrounding whitespace and one
\* leading sign are accepted as well.
PyIntSigned(s) ==
  LET t == Strip(s)
      signed == t /= <<>> /\ t[1] \in {"-", "+"}
      body == IF signed THEN Tail(t) ELSE t
  IN  IF IsDecimal(body)
      THEN [ok |-> TRUE,
            val |-> IF signed /\ t[1] = "-" THEN 0 - DigitsValue(body)
                    ELSE DigitsValue(body)]
      ELSE [ok |-> FALSE, val |-> 0]

\* s.split(sep) for a one-character separator
RECURSIVE Split(_, _)
Split(s, sep) ==
  LET at == {i \in 1..Len(s) : s[i] = sep}
  IN  IF at = {} THEN <<s>>
      ELSE LET i == CHOOSE k \in at : \A l \in at : k <= l
           IN  <<SubSeq(s, 1, i - 1)>> \o Split(DropFirst(s, i), sep)

RECURSIVE Spaces(_)
Spaces(n) == IF n <= 0 THEN <<>> ELSE <<" ">> \o Spaces(n - 1)

RECURSIVE Concat(_)
Concat(ss) == IF ss = <<>> THEN <<>> ELSE Head(ss) \o Concat(Tail(ss))

(***************************************************************************)
(* The mirror file query_log.txt.                                          *)
(***************************************************************************)
\* 'Total filters: '
HEADER_PREFIX ==
  <<"T","o","t","a","l"," ","f","i","l","t","e","r","s",":"," ">>

\* the field width of {num_queries:<16}
COUNT_WIDTH == 16

\* f'Total filters: {num_queries:<16}\n'
FormatHeader(num_queries) ==
  LET digits == PyStr(num_queries)
  IN  HEADER_PREFIX \o digits \o Spaces(COUNT_WIDTH - Len(digits)) \o <<NL>>

\* Length of the first line of data, its newline included (file.readline()).
LineEnd(data) ==
  LET ends == {i \in 1..Len(data) : data[i] = NL}
  IN  IF ends = {} THEN Len(data)
      ELSE CHOOSE i \in ends : \A j \in ends : i <= j

ReadLine(data) == SubSeq(data, 1, LineEnd(data))

\* file.readlines(): the lines of the file, each with its newline.
RECURSIVE ReadLines(_)
ReadLines(data) ==
  IF data = <<>> THEN <<>>
  ELSE <<ReadLine(data)>> \o ReadLines(DropFirst(data, LineEnd(data)))

\* file.seek(pos); file.write(text): overwrites in place, extends past the end.
WriteAt(data, pos, text) ==
  SubSeq(data, 1, pos) \o text \o DropFirst(data, pos + Len(text))

\* first_line = <line>[len('Total filters: '):].strip(); int(first_line),
\* with ValueError turned into 0.
ParseCount(line) ==
  LET first_line == Strip(DropFirst(line, Len(HEADER_PREFIX)))
      parsed == PyInt(first_line)
  IN  IF parsed.ok THEN parsed.val ELSE 0

NoFile == [exists |-> FALSE, data |-> <<>>]

\* save_last_query_action without the num_queries += 1 of line 71.
save_last_query_actionNoIncrement(query, f, fault) ==
  LET data0 == IF f.exists THEN f.data ELSE <<>>
      num_queries == ParseCount(ReadLine(data0))
      data1 == WriteAt(data0, 0, FormatHeader(num_queries))
      data2 == data1 \o query \o <<NL>>
  IN  [raised |-> FALSE, file |-> [exists |-> TRUE, data |-> data2]]

\* save_last_query_action(query) on mirror file f; fault names the point at
\* which the file system fails ("none": it does not).
save_last_query_action(query, f, fault) ==
  IF fault = "open"
  THEN \* open() raises OSError: nothing is read or written
       [raised |-> TRUE, file |-> f]
  ELSE
  LET \* lines 61-62: create the file when it does not exist
      data0 == IF f.exists THEN f.data ELSE <<>>
      \* lines 65-71
      num_queries == ParseCount(ReadLine(data0)) + 1
      \* lines 73-74: seek(0); write the counter line
      data1 == WriteAt(data0, 0, FormatHeader(num_queries))
      \* lines 75-77: seek(0, SEEK_END); write(query + '\n'); flush()
      data2 == data1 \o query \o <<NL>>
  IN  IF fault = "append"
      THEN \* the counter line reached the file (flushed by the seek), the
           \* appended line did not
           [raised |-> TRUE, file |-> [exists |-> TRUE, data |-> data1]]
      ELSE [raised |-> FALSE, file |-> [exists |-> TRUE, data |-> data2]]

\* lines[1:-1]
MiddleLines(lines) ==
  IF Len(lines) <= 2 THEN <<>> ELSE SubSeq(lines, 2, Len(lines) - 1)

\* remove_last_query_action writing lines[1:] back instead of lines[1:-1].
remove_last_query_actionKeepLines(f, fault) ==
  LET lines == ReadLines(f.data)
      num_queries == ParseCount(lines[1]) - 1
      data1 == FormatHeader(num_queries) \o Concat(Tail(lines))
  IN  [raised |-> FALSE, file |-> [exists |-> TRUE, data |-> data1]]

\* remove_last_query_action without the num_queries -= 1 of line 94.
remove_last_query_actionNoDecrement(f, fault) ==
  LET lines == ReadLines(f.data)
      num_queries == ParseCount(lines[1])
      data1 == FormatHeader(num_queries) \o Concat(MiddleLines(lines))
  IN  [raised |-> FALSE, file |-> [exists |-> TRUE, data |-> data1]]

\* remove_last_query_action() on mirror file f.
remove_last_query_action(f, fault) ==
  IF fault = "open" \/ ~f.exists
  THEN \* open(..., 'r+') raises (FileNotFoundError when the file is missing)
       [raised |-> TRUE, file |-> f]
  ELSE
  LET lines == ReadLines(f.data)
  IN  IF lines = <<>>
      THEN \* lines[0] raises IndexError
           [raised |-> TRUE, file |-> f]
      ELSE
      LET num_queries == ParseCount(lines[1])
      IN  IF num_queries < 1
          THEN \* raise ValueError("No queries to remove")
               [raised |-> TRUE, file |-> f]
          ELSE
          \* seek(0); write header; writelines(lines[1:-1]); truncate()
          LET data1 == FormatHeader(num_queries - 1)
                         \o Concat(MiddleLines(lines))
          IN  [raised |-> FALSE, file |-> [exists |-> TRUE, data |-> data1]]

(***************************************************************************)
(* Log entries (the dicts built by load_file_data and recv_log_entry).     *)
(***************************************************************************)
\* The keys of a log entry, as the text a filter clause names them by.
FieldKeys ==
  [username     |-> <<"u","s","e","r","n","a","m","e">>,
   IP           |-> <<"I","P">>,
   server       |-> <<"s","e","r","v","e","r">>,
   port         |-> <<"p","o","r","t">>,
   accessTime   |-> <<"a","c","c","e","s","s","T","i","m","e">>,
   dataSent     |-> <<"d","a","t","a","S","e","n","t">>,
   dataReceived |-> <<"d","a","t","a","R","e","c","e","i","v","e","d">>,
   score        |-> <<"s","c","o","r","e">>]

\* isinstance(entry_value, str): the fields built with .strip() / .decode()
StrFields == {"username", "IP", "server"}
\* int(...) fields
IntFields == {"port", "accessTime", "dataSent", "dataReceived"}

\* A number m / 10^e: Python ints are Dec(n, 0); a float is the decimal it was
\* read from.
Dec(m, e) == [m |-> m, e |-> e]

RECURSIVE Pow10(_)
Pow10(e) == IF e = 0 THEN 1 ELSE 10 * Pow10(e - 1)

NumLess(a, b) == a.m * Pow10(b.e) < b.m * Pow10(a.e)
NumEq(a, b) == a.m * Pow10(b.e) = b.m * Pow10(a.e)

\* The numeric value of item[key] for a non-str field.
NumValue(item, key) == IF key \in IntFields THEN Dec(item[key], 0) ELSE item[key]

\* float(s): optional sign, digits with at most one '.', at least one digit;
\* anything else is ValueError (the model's alphabet produces no exponent,
\* inf or nan forms).
PyFloat(s) ==
  LET t == Strip(s)
      signed == t /= <<>> /\ t[1] \in {"-", "+"}
      body == IF signed THEN Tail(t) ELSE t
      dots == {i \in 1..Len(body) : body[i] = "."}
      digits == SelectSeq(body, IsDigit)
      ok == /\ Cardinality(dots) <= 1
            /\ digits /= <<>>
            /\ \A i \in 1..Len(body) : IsDigit(body[i]) \/ body[i] = "."
      e == IF dots = {} THEN 0 ELSE Len(body) - (CHOOSE i \in dots : TRUE)
      mag == DigitsValue(digits)
  IN  IF ok
      THEN [ok |-> TRUE, val |-> Dec(IF signed /\ t[1] = "-" THEN 0 - mag ELSE mag, e)]
      ELSE [ok |-> FALSE, val |-> Dec(0, 0)]

(***************************************************************************)
(* FILTER_PATTERN = re.compile(r'([a-zA-Z ]+)([=<>!]+)([^,]+)')            *)
(***************************************************************************)
InClass(c, cls) ==
  CASE cls = "field"    -> c \in Letters \cup {" "}
    [] cls = "operator" -> c \in {"=", "<", ">", "!"}
    [] cls = "value"    -> c /= ","

\* The longest run of characters of class cls in s from position i.
RunLen(s, i, cls) ==
  CHOOSE n \in 0..(Len(s) - i + 1) :
    /\ \A j \in i..(i + n - 1) : InClass(s[j], cls)
    /\ (i + n > Len(s) \/ ~InClass(s[i + n], cls))

\* The match of FILTER_PATTERN starting exactly at position i, if any. Each
\* group is greedy; the only backtracking that can succeed gives the last
\* character of the operator run to the value group.
MatchAt(s, i) ==
  LET l1 == RunLen(s, i, "field")
      l2 == RunLen(s, i + l1, "operator")
      l3 == RunLen(s, i + l1 + l2, "value")
      none == [found |-> FALSE, field |-> <<>>, operator |-> <<>>,
               value |-> <<>>, next |-> i + 1]
  IN  IF l1 = 0 \/ l2 = 0 THEN none
      ELSE IF l3 > 0
      THEN [found |-> TRUE,
            field |-> SubSeq(s, i, i + l1 - 1),
            operator |-> SubSeq(s, i + l1, i + l1 + l2 - 1),
            value |-> SubSeq(s, i + l1 + l2, i + l1 + l2 + l3 - 1),
            next |-> i + l1 + l2 + l3]
      ELSE IF l2 >= 2
      THEN [found |-> TRUE,
            field |-> SubSeq(s, i, i + l1 - 1),
            operator |-> SubSeq(s, i + l1, i + l1 + l2 - 2),
            value |-> SubSeq(s, i + l1 + l2 - 1, i + l1 + l2 - 1),
            next |-> i + l1 + l2]
      ELSE none

\* FILTER_PATTERN.findall(s), scanning from position i.
RECURSIVE FindAllFrom(_, _)
FindAllFrom(s, i) ==
  IF i > Len(s) THEN <<>>
  ELSE LET m == MatchAt(s, i)
       IN  IF m.found
           THEN <<[field |-> m.field, operator |-> m.operator, value |-> m.value]>>
                  \o FindAllFrom(s, m.next)
           ELSE FindAllFrom(s, i + 1)

FindAll(s) == FindAllFrom(s, 1)

(***************************************************************************)
(* apply_filter(results, filter_query)                                     *)
(***************************************************************************)
OP_EQ == <<"=">>
OP_NE == <<"!", "=">>
OP_LT == <<"<">>
OP_GT == <<">">>
OP_LE == <<"<", "=">>
OP_GE == <<">", "=">>

HasKey(field) == \E k \in DOMAIN FieldKeys : FieldKeys[k] = field
KeyOf(field) == CHOOSE k \in DOMAIN FieldKeys : FieldKeys[k] = field

\* Lines 194-211 for a numeric field, with the strict and non-strict orders
\* confused.
NumericCheckStrictSwapped(entry, operator, value) ==
  IF operator \notin {OP_EQ, OP_NE, OP_LT, OP_GT, OP_LE, OP_GE} THEN "pass"
  ELSE LET f == PyFloat(value)
       IN  IF ~f.ok THEN "ValueError"
           ELSE IF \/ operator = OP_EQ /\ ~NumEq(entry, f.val)
                   \/ operator = OP_NE /\ NumEq(entry, f.val)
                   \/ operator = OP_LT /\ NumLess(f.val, entry)
                   \/ operator = OP_GT /\ NumLess(entry, f.val)
                   \/ operator = OP_LE /\ ~NumLess(entry, f.val)
                   \/ operator = OP_GE /\ ~NumLess(f.val, entry)
                THEN "break"
                ELSE "pass"

\* Lines 199-211: the comparison of a numeric entry_value with float(value).
\* float(value) is evaluated only when the operator is one of the six.
NumericCheck(entry, operator, value) ==
  IF operator \notin {OP_EQ, OP_NE, OP_LT, OP_GT, OP_LE, OP_GE} THEN "pass"
  ELSE LET f == PyFloat(value)
       IN  IF ~f.ok THEN "ValueError"
           ELSE IF \/ operator = OP_EQ /\ ~NumEq(entry, f.val)
                   \/ operator = OP_NE /\ NumEq(entry, f.val)
                   \/ operator = OP_LT /\ ~NumLess(entry, f.val)
                   \/ operator = OP_GT /\ ~NumLess(f.val, entry)
                   \/ operator = OP_LE /\ NumLess(f.val, entry)
                   \/ operator = OP_GE /\ NumLess(entry, f.val)
                THEN "break"
                ELSE "pass"

\* Lines 194-198: a str entry_value; any operator other than = and != falls
\* through both branches.
StringCheck(entry, operator, value) ==
  IF \/ operator = OP_EQ /\ entry /= value
     \/ operator = OP_NE /\ entry = value
  THEN "break"
  ELSE "pass"

\* Lines 186-216: the inner loop over the clauses for one item, from its k-th
\* iteration. "append": the item is appended; "skip": it is not; otherwise the
\* exception raised.
RECURSIVE ClauseLoop(_, _, _)
ClauseLoop(item, matches, k) ==
  IF k > Len(matches) THEN "skip"
  ELSE
  LET matchCount == Len(matches) - k
      field == Strip(matches[k].field)
      value == Strip(matches[k].value)
      operator == matches[k].operator
  IN  IF ~HasKey(field) THEN "FieldNotFound"
      ELSE
      LET key == KeyOf(field)
          check == IF key \in StrFields
                   THEN StringCheck(item[key], operator, value)
                   ELSE NumericCheck(NumValue(item, key), operator, value)
      IN  IF check /= "pass" THEN (IF check = "break" THEN "skip" ELSE check)
          ELSE IF matchCount = 0 THEN "append"
          ELSE ClauseLoop(item, matches, k + 1)

\* Lines 184-218: the outer loop from item i with the list built so far.
RECURSIVE ItemLoop(_, _, _, _)
ItemLoop(results, matches, i, filtered_results) ==
  IF i > Len(results) THEN [raised |-> "none", value |-> filtered_results]
  ELSE LET outcome == ClauseLoop(results[i], matches, 1)
       IN  CASE outcome = "append" ->
                  ItemLoop(results, matches, i + 1,
                           Append(filtered_results, results[i]))
             [] outcome = "skip" ->
                  ItemLoop(results, matches, i + 1, filtered_results)
             [] OTHER -> [raised |-> outcome, value |-> <<>>]

apply_filter(results, filter_query) ==
  ItemLoop(results, FindAll(filter_query), 1, <<>>)

(***************************************************************************)
(* ds.Stack (DataStructuresPython.py)                                      *)
(***************************************************************************)
(* ds.PriorityQueue (DataStructuresPython.py).  The queue is the list      *)
(* self.queue of (item, priority) pairs.                                   *)
(***************************************************************************)
\* The while loop of enqueue: the index the new pair is inserted at,
\* counted from 0 as in the source.
RECURSIVE InsertIndex(_, _, _)
InsertIndex(q, priority, i) ==
  IF i < Len(q) /\ priority <= q[i + 1][2]
  THEN InsertIndex(q, priority, i + 1)
  ELSE i

\* list.insert(i, x)
ListInsert(q, i, x) == SubSeq(q, 1, i) \o <<x>> \o SubSeq(q, i + 1, Len(q))

\* enqueue with < in place of <=: a pair goes in front of its equals.
PriorityQueue_enqueueBeforeEquals(q, item, priority) ==
  LET RECURSIVE Idx(_)
      Idx(i) == IF i < Len(q) /\ priority < q[i + 1][2] THEN Idx(i + 1) ELSE i
  IN  ListInsert(q, Idx(0), <<item, priority>>)

PriorityQueue_enqueue(q, item, priority) ==
  ListInsert(q, InsertIndex(q, priority, 0), <<item, priority>>)

\* dequeue: self.queue.pop(0), the (item, priority) pair at the head.
\* Only called here on a non-empty queue.
PriorityQueue_dequeue(q) == [value |-> Head(q), queue |-> Tail(q)]

PQIdle ==
  /\ queue = <<>>
  /\ pqCount = 0
  /\ pqOut = <<>>
  /\ pqRaised = FALSE

(***************************************************************************)
(* is_valid_ip and load_file_data (ClientPython.py).                       *)
(***************************************************************************)
HexChars ==
  {"a","b","c","d","e","f","A","B","C","D","E","F"}

\* One group of an IPv6 literal: 1 to 4 hex digits.
IsHexGroup(g) ==
  /\ Len(g) \in 1..4
  /\ \A i \in 1..Len(g) : IsDigit(g[i]) \/ g[i] \in HexChars

\* inet_pton(AF_INET, s), as used for the dotted quad that may end an IPv6
\* literal: four decimal octets up to 255, no leading zero.
InetPton4(s) ==
  LET parts == Split(s, ".")
  IN  /\ Len(parts) = 4
      /\ \A k \in 1..4 :
           /\ IsDecimal(parts[k])
           /\ Len(parts[k]) <= 3
           /\ (Len(parts[k]) > 1 => parts[k][1] /= "0")
           /\ DigitsValue(parts[k]) <= 255

\* The 16-bit groups a colon-separated run stands for, or -1 when it is not
\* well formed. Only the last group may be a dotted quad (two groups), and
\* only where lastAllowed says the run ends the literal.
GroupCount(run, lastAllowed) ==
  IF run = <<>> THEN 0
  ELSE LET gs == Split(run, ":")
           n == Len(gs)
           quad == lastAllowed /\ InetPton4(gs[n])
       IN  IF /\ \A k \in 1..(n - 1) : IsHexGroup(gs[k])
              /\ (quad \/ IsHexGroup(gs[n]))
           THEN IF quad THEN n + 1 ELSE n
           ELSE 0 - 1

\* socket.inet_pton(socket.AF_INET6, ip) succeeds.
InetPton6(ip) ==
  LET dbl == {i \in 1..(Len(ip) - 1) : ip[i] = ":" /\ ip[i + 1] = ":"}
  IN  IF dbl = {}
      THEN GroupCount(ip, TRUE) = 8
      ELSE LET i == CHOOSE k \in dbl : \A l \in dbl : k <= l
               left == GroupCount(SubSeq(ip, 1, i - 1), FALSE)
               right == GroupCount(DropFirst(ip, i + 1), TRUE)
           IN  left >= 0 /\ right >= 0 /\ left + right <= 7

is_valid_ip(ip) ==
  LET parts == Split(ip, ".")
  IN  IF Len(parts) = 4
      THEN \A k \in 1..4 :
             IsDecimal(parts[k]) /\ DigitsValue(parts[k]) <= 255
      ELSE InetPton6(ip)

\* The body of the try block of load_file_data for one line: the logEntry
\* it builds, or raised when any statement of the block raises.
ParseLogLine(line) ==
  LET parsedLine == Split(line, ",")
  IN  IF Len(parsedLine) /= 8 THEN [raised |-> TRUE, logEntry |-> <<>>]
      ELSE LET port == PyIntSigned(Strip(parsedLine[3]))
               accessTime == PyIntSigned(Strip(parsedLine[4]))
               dataSent == PyIntSigned(Strip(parsedLine[5]))
               dataReceived == PyIntSigned(Strip(parsedLine[6]))
               score == PyFloat(Strip(parsedLine[7]))
               logEntry == [username |-> Strip(parsedLine[1]),
                            IP |-> Strip(parsedLine[2]),
                            port |-> port.val,
                            accessTime |-> accessTime.val,
                            dataSent |-> dataSent.val,
                            dataReceived |-> dataReceived.val,
                            score |-> score.val,
                            server |-> Strip(parsedLine[8])]
           IN  IF /\ port.ok /\ accessTime.ok /\ dataSent.ok
                  /\ dataReceived.ok /\ score.ok
                  /\ is_valid_ip(logEntry.IP)
               THEN [raised |-> FALSE, logEntry |-> logEntry]
               ELSE [raised |-> TRUE, logEntry |-> <<>>]

\* One iteration of "for line in file": the queue after the line.
LoadLine(q, line) ==
  LET parsed == ParseLogLine(line)
  IN  IF parsed.raised THEN q
      ELSE PriorityQueue_enqueue(q, parsed.logEntry,
                                 parsed.logEntry.accessTime)

(***************************************************************************)
(* The wire codec: struct.pack / struct.unpack with the format             *)
(* '!HHH{}s{}s{}sHIIIf' (network byte order, no padding), send_log_entry,  *)
(* recv_log_entry.  Bytes are the integers 0..255.                         *)
(***************************************************************************)
\* The printable ASCII characters, from code 32 to code 126. The double
\* quote (34), the backslash (92) and the backtick (96) are written as words;
\* no text of the model holds them.
ASCII ==
  <<" ","!","QUOTE","#","$","%","&","'","(",")","*","+",",","-",".","/",
    "0","1","2","3","4","5","6","7","8","9",":",";","<","=",">","?",
    "@","A","B","C","D","E","F","G","H","I","J","K","L","M","N","O",
    "P","Q","R","S","T","U","V","W","X","Y","Z","[","BACKSLASH","]","^","_",
    "BACKTICK","a","b","c","d","e","f","g","h","i","j","k","l","m","n","o",
    "p","q","r","s","t","u","v","w","x","y","z","{","|","}","~">>

\* str.encode('utf-8') and bytes.decode('utf-8') on the characters of the
\* model, all ASCII: one byte a character.
CodeOf(c) == IF c = NL THEN 10 ELSE 31 + (CHOOSE k \in 1..Len(ASCII) : ASCII[k] = c)
CharOf(b) == IF b = 10 THEN NL ELSE ASCII[b - 31]
Utf8Encode(s) == [i \in 1..Len(s) |-> CodeOf(s[i])]
Utf8Decode(bs) == [i \in 1..Len(bs) |-> CharOf(bs[i])]

RECURSIVE Pow2(_)
Pow2(k) == IF k = 0 THEN 1 ELSE 2 * Pow2(k - 1)

\* recv_all asking for the whole length again on every recv.
RecvWantWhole(length, data) == length

\* recv_all: the argument of sock.recv
RecvWant(length, data) == length - Len(data)

\* '!H' unpacked from its low byte alone.
UnpackHLowByte(bs) == bs[2]

\* '!H': struct.error unless 0 <= n <= 65535
PackH(n) == [ok |-> n \in 0..65535, bytes |-> <<n \div 256, n % 256>>]
UnpackH(bs) == bs[1] * 256 + bs[2]

\* '!I': struct.error unless 0 <= n <= 2^32 - 1. The integers of the model
\* stay below 2^31, so only a negative number fails here.
PackI(n) ==
  [ok |-> n >= 0,
   bytes |-> <<n \div 16777216, (n \div 65536) % 256, (n \div 256) % 256, n % 256>>]
UnpackI(bs) == bs[1] * 16777216 + bs[2] * 65536 + bs[3] * 256 + bs[4]

\* floor(log2(num / den)) for num, den > 0
RECURSIVE Log2Floor(_, _)
Log2Floor(num, den) ==
  IF num < den THEN Log2Floor(2 * num, den) - 1
  ELSE IF num >= 2 * den THEN Log2Floor(num, 2 * den) + 1
  ELSE 0

\* '!f': the IEEE-754 single nearest to the float x (ties to even), sign
\* bit, 8 bits of exponent biased by 127, 23 bits of fraction. The floats of
\* the model are m / 10^e with a magnitude between 2^-8 and 2^8.
PackF(x) ==
  IF x.m = 0 THEN <<0, 0, 0, 0>>
  ELSE LET mag == IF x.m < 0 THEN 0 - x.m ELSE x.m
           E0 == Log2Floor(mag, Pow10(x.e))
           num == mag * Pow2(23 - E0)
           q == num \div Pow10(x.e)
           r == num % Pow10(x.e)
           M0 == IF 2 * r > Pow10(x.e) \/ (2 * r = Pow10(x.e) /\ q % 2 = 1)
                 THEN q + 1 ELSE q
           carry == M0 = 16777216
           M == IF carry THEN 8388608 ELSE M0
           B == (IF carry THEN E0 + 1 ELSE E0) + 127
           F == M - 8388608
       IN  <<(IF x.m < 0 THEN 128 ELSE 0) + B \div 2,
             (B % 2) * 128 + F \div 65536, (F \div 256) % 256, F % 256>>

\* The float '!f' unpacks to, as m * 2^e2 (normal numbers and zero).
Bin(m, e2) == [m |-> m, e2 |-> e2]

UnpackF(bs) ==
  LET B == (bs[1] % 128) * 2 + bs[2] \div 128
      F == (bs[2] % 128) * 65536 + bs[3] * 256 + bs[4]
      mag == 8388608 + F
  IN  IF B = 0 /\ F = 0 THEN Bin(0, 0)
      ELSE Bin(IF bs[1] >= 128 THEN 0 - mag ELSE mag, B - 150)

\* send_log_entry(sock, logEntry) for a dict logEntry: the bytes handed to
\* sock.sendall, or struct.error when a number does not fit its field.
send_log_entry(logEntry) ==
  LET username == Utf8Encode(logEntry.username)
      ip == Utf8Encode(logEntry.IP)
      server == Utf8Encode(logEntry.server)
      port == PackH(logEntry.port)
      accessTime == PackI(logEntry.accessTime)
      dataSent == PackI(logEntry.dataSent)
      dataReceived == PackI(logEntry.dataReceived)
  IN  IF port.ok /\ accessTime.ok /\ dataSent.ok /\ dataReceived.ok
      THEN [raised |-> "none",
            bytes |-> PackH(Len(username)).bytes \o PackH(Len(ip)).bytes
                      \o PackH(Len(server)).bytes
                      \o username \o ip \o server
                      \o port.bytes \o accessTime.bytes \o dataSent.bytes
                      \o dataReceived.bytes \o PackF(logEntry.score)]
      ELSE [raised |-> "struct.error", bytes |-> <<>>]

\* struct.calcsize of the two formats of recv_log_entry
LENGTHS_SIZE == 6
FIXED_SIZE == 18
BodySize(lengths_data) ==
  UnpackH(SubSeq(lengths_data, 1, 2)) + UnpackH(SubSeq(lengths_data, 3, 4))
    + UnpackH(SubSeq(lengths_data, 5, 6)) + FIXED_SIZE

\* The logEntry recv_log_entry builds from the two blocks recv_all returned.
UnpackLogEntry(lengths_data, data) ==
  LET username_len == UnpackH(SubSeq(lengths_data, 1, 2))
      ip_len == UnpackH(SubSeq(lengths_data, 3, 4))
      server_len == UnpackH(SubSeq(lengths_data, 5, 6))
      a == username_len
      b == a + ip_len
      c == b + server_len
  IN  [username |-> Utf8Decode(SubSeq(data, 1, a)),
       IP |-> Utf8Decode(SubSeq(data, a + 1, b)),
       port |-> UnpackH(SubSeq(data, c + 1, c + 2)),
       accessTime |-> UnpackI(SubSeq(data, c + 3, c + 6)),
       dataSent |-> UnpackI(SubSeq(data, c + 7, c + 10)),
       dataReceived |-> UnpackI(SubSeq(data, c + 11, c + 14)),
       score |-> UnpackF(SubSeq(data, c + 15, c + 18)),
       server |-> Utf8Decode(SubSeq(data, b + 1, c))]

\* upload_logs: a socket object has no attribute htons, so line 171 raises
\* AttributeError before anything is written or dequeued.
upload_logs(sent, q) ==
  [raised |-> "AttributeError", wire |-> sent, logs |-> q]

UpIdle ==
  /\ upLines = <<>>
  /\ upPos = 0
  /\ logs = <<>>
  /\ upSkipped = 0
  /\ wire = <<>>
  /\ upMsg = ""
  /\ upPc = "idle"

\* No thread holds the lock.
FREE == 0 - 1
\* The thread id of notify_100; the handle_client threads are 1, 2, ...
WAITER == 0
Handlers == 1..MaxHandlers

\* The listening socket in inputs and fd_to_socket; connections are 1, 2, ...
LISTENER == 0
Conns == 1..MaxConns

\* No strategy has been started and no peer has connected.
SrvIdle ==
  /\ strategy = "none"
  /\ srvPc = "idle"
  /\ cState = [c \in Conns |-> "none"]
  /\ urgent = {}
  /\ inbox = [c \in Conns |-> <<>>]
  /\ sentLog = [c \in Conns |-> <<>>]
  /\ got = [c \in Conns |-> <<>>]
  /\ sock = [c \in Conns |-> "none"]
  /\ hdl = [c \in Conns |-> "none"]
  /\ hData = [c \in Conns |-> <<>>]
  /\ inputs = <<>>
  /\ outputs = <<>>
  /\ message_queues = <<>>
  /\ fd_to_socket = {}
  /\ registered = <<>>
  /\ ready = <<>>

\* No executor has been created.
PoolIdle ==
  /\ poolPc = "idle"
  /\ work_queue = [open |-> 0, eof |-> 0]
  /\ workers = [open |-> 0, eof |-> 0]
  /\ finished = 0

\* No hash table has been created.
HtIdle ==
  /\ table = <<>>
  /\ hashOf = <<>>
  /\ inserted = <<>>

\* No stack has been created.
StIdle ==
  /\ stItems = <<>>
  /\ popArg = <<>>
  /\ popResult = <<>>

DsIdle == PoolIdle /\ HtIdle /\ StIdle

\* The threads of handle_new_connections_threads before any is started.
ThrRestIdle ==
  /\ messageCounterLock = FREE
  /\ condition = FREE
  /\ hPc = [h \in Handlers |-> "unborn"]
  /\ hNextCount = [h \in Handlers |-> 0]
  /\ wPc = "unborn"
  /\ wOut = ""
  /\ notifications = <<>>
  /\ processed = 0

\* handle_new_connections_threads before any thread is started.
ThrIdle == messageCounter = 0 /\ ThrRestIdle

RxIdle ==
  /\ rxEntry = <<>>
  /\ rxDelivered = <<>>
  /\ rxStream = <<>>
  /\ rxData = <<>>
  /\ rxLengths = <<>>
  /\ rxBody = <<>>
  /\ rxResult = <<>>
  /\ rxSplit = FALSE
  /\ rxPc = "idle"

(***************************************************************************)
Stack_push(stack, item) == Append(stack, item)
\* list.pop() on a non-empty list
Stack_pop(stack) ==
  [item |-> stack[Len(stack)], stack |-> SubSeq(stack, 1, Len(stack) - 1)]
Stack_clear(stack) == <<>>

(***************************************************************************)
(* do_menu                                                                 *)
(***************************************************************************)
\* What the user types at get_filter_string().
SCORE_GT_4 == <<"s","c","o","r","e",">","4">>
SCORE_LT_9_5 == <<"s","c","o","r","e","<","9",".","5">>

FilterInputs ==
  { <<>>,
    SCORE_GT_4,
    SCORE_LT_9_5 }

\* submit_query(sock, query): its first statement evaluates sock.htons, and a
\* socket object has no such attribute (htons is a function of the socket
\* module), so the call raises AttributeError before anything is sent.
submit_query(query) == [raised |-> TRUE, value |-> <<>>]

\* do_menu is running: the loop of line 248 has not returned (line 300).
running == lastOp /= "exit"

\* pushSnap when the last choice neither pushed a frame nor undid the push
\* made just before it.
NoSnap == [phase |-> "none", stack |-> <<>>, log |-> NoFile, query |-> <<>>]

MenuInit ==
  /\ filterStack = <<>>
  /\ curResults = <<>>
  /\ curFilterString = <<>>
  /\ queryLog = NoFile
  /\ lastOp = "start"
  /\ lastMsg = ""
  /\ faults = 0
  /\ pushSnap = NoSnap

FilterIdle ==
  /\ fRecords = <<>>
  /\ fClauses = <<>>
  /\ fQuery = <<>>
  /\ fResult = [raised |-> "none", value |-> <<>>]
  /\ fpc = "idle"

\* Lines 271-272 / 276-277: push the frame, then mirror it.
PushAndSave(results, query, fault) ==
  LET saved == save_last_query_action(query, queryLog, fault)
  IN  /\ curResults' = results
      /\ filterStack' = Stack_push(filterStack, <<results, query>>)
      /\ queryLog' = saved.file
      /\ lastMsg' = IF saved.raised THEN "Error" ELSE ""
      /\ pushSnap' = IF saved.raised THEN NoSnap
                     ELSE [phase |-> "pushed", stack |-> filterStack,
                           log |-> queryLog, query |-> query]

\* choice 2, lines 268-272
SubmitQueryStep(query, fault) ==
  /\ running
  /\ lastOp' = "query"
  /\ curFilterString' = query
  /\ LET answer == submit_query(query)
     IN  IF answer.raised
         THEN /\ lastMsg' = "Error"
              /\ pushSnap' = NoSnap
              /\ UNCHANGED <<filterStack, curResults, queryLog>>
         ELSE /\ Len(filterStack) < MaxDepth
              /\ PushAndSave(answer.value, query, fault)
  /\ UNCHANGED nonMenuVars

\* choice 3, lines 273-277; filtered is what the one call of line 275
\* returned or raised.
FilterResultsStep(query, fault) ==
  /\ running
  /\ Len(filterStack) < MaxDepth
  /\ lastOp' = "filter"
  /\ curFilterString' = query
  /\ \E filtered \in {apply_filter(curResults, query)} :
       IF filtered.raised /= "none"
       THEN /\ lastMsg' = "Error"
            /\ pushSnap' = NoSnap
            /\ UNCHANGED <<filterStack, curResults, queryLog>>
       ELSE PushAndSave(filtered.value, query, fault)
  /\ UNCHANGED nonMenuVars

\* Lines 283-288 with the frame below the new top taken as the view.
ViewAfterUndoTwoBack(popped) ==
  IF Len(popped) > 1
  THEN SubSeq(popped, 1, Len(popped) - 1)[Len(popped) - 1]
  ELSE <<(<<>>), (<<>>)>>

\* Lines 283-288: the view after an undo that left the frames `popped`:
\* the top frame, popped and pushed back, or the empty view.
ViewAfterUndo(popped) ==
  IF Len(popped) > 0
  THEN Stack_pop(popped).item
  ELSE <<(<<>>), (<<>>)>>

\* Lines 281-288: undo with a non-empty stack.
UndoFrame(fault) ==
  LET \* line 281
      popped == Stack_pop(filterStack).stack
      \* line 282
      removed == remove_last_query_action(queryLog, fault)
  IN  /\ filterStack' = popped
      /\ queryLog' = removed.file
      /\ IF removed.raised
         THEN /\ lastMsg' = "Error"
              /\ UNCHANGED <<curResults, curFilterString>>
         ELSE /\ lastMsg' = ""
              /\ curResults' = ViewAfterUndo(popped)[1]
              /\ curFilterString' = ViewAfterUndo(popped)[2]

\* Line 290 with the reset of lines 287-288 run on this branch too.
UndoNothingResetsView ==
  /\ lastMsg' = "No filters to undo"
  /\ curResults' = <<>>
  /\ curFilterString' = <<>>
  /\ UNCHANGED <<filterStack, queryLog>>

\* Lines 289-290: undo with an empty stack.
UndoNothing ==
  /\ lastMsg' = "No filters to undo"
  /\ UNCHANGED <<filterStack, queryLog, curResults, curFilterString>>

\* choice 4, lines 278-290
UndoStep(fault) ==
  /\ running
  /\ lastOp' = "undo"
  /\ pushSnap' = IF pushSnap.phase = "pushed"
                 THEN [pushSnap EXCEPT !.phase = "undone"]
                 ELSE NoSnap
  /\ IF Len(filterStack) > 0 THEN UndoFrame(fault) ELSE UndoNothing
  /\ UNCHANGED nonMenuVars

SubmitQuery ==
  \E query \in FilterInputs :
    SubmitQueryStep(query, "none") /\ UNCHANGED faults

FilterResults ==
  \E query \in FilterInputs :
    FilterResultsStep(query, "none") /\ UNCHANGED faults

Undo == UndoStep("none") /\ UNCHANGED faults

\* choice 5, lines 291-294
Display ==
  /\ running
  /\ lastOp' = "display"
  /\ lastMsg' = ""
  /\ pushSnap' = NoSnap
  /\ UNCHANGED <<filterStack, curResults, curFilterString, queryLog, faults,
                 nonMenuVars>>

\* choice 6, lines 295-298
Clear ==
  /\ running
  /\ lastOp' = "clear"
  /\ pushSnap' = NoSnap
  /\ IF queryLog.exists
     THEN /\ queryLog' = NoFile
          /\ filterStack' = Stack_clear(filterStack)
          /\ lastMsg' = ""
     ELSE \* os.remove raises FileNotFoundError
          /\ lastMsg' = "Error"
          /\ UNCHANGED <<queryLog, filterStack>>
  /\ UNCHANGED <<curResults, curFilterString, faults, nonMenuVars>>

\* choice 7, lines 299-300
Exit ==
  /\ running
  /\ lastOp' = "exit"
  /\ lastMsg' = ""
  /\ pushSnap' = NoSnap
  /\ UNCHANGED <<filterStack, curResults, curFilterString, queryLog, faults,
                 nonMenuVars>>

\* any other choice, lines 301-302
InvalidChoice ==
  /\ running
  /\ lastOp' = "invalid"
  /\ lastMsg' = "Invalid choice. Please try again."
  /\ pushSnap' = NoSnap
  /\ UNCHANGED <<filterStack, curResults, curFilterString, queryLog, faults,
                 nonMenuVars>>

Init ==
  MenuInit /\ FilterIdle /\ PQIdle /\ UpIdle /\ RxIdle /\ ThrIdle /\ SrvIdle
  /\ DsIdle

Next ==
  \/ SubmitQuery
  \/ FilterResults
  \/ Undo
  \/ Display
  \/ Clear
  \/ Exit
  \/ InvalidChoice

\* The menu with a file system that never fails.
Spec == Init /\ [][Next]_vars

(***************************************************************************)
(* The menu with mirror-file I/O errors.                                   *)
(***************************************************************************)
FilterResultsIOError ==
  /\ faults < MaxFaults
  /\ faults' = faults + 1
  /\ \E query \in FilterInputs, fault \in {"open", "append"} :
       FilterResultsStep(query, fault)

UndoIOError ==
  /\ faults < MaxFaults
  /\ faults' = faults + 1
  /\ Len(filterStack) > 0
  /\ UndoStep("open")

NextFault ==
  \/ Next
  \/ FilterResultsIOError
  \/ UndoIOError

SpecFault == Init /\ [][NextFault]_vars

(***************************************************************************)
(* One call of apply_filter on generated inputs.                           *)
(***************************************************************************)
\* {Alice,10.0.0.9,54362,100,100,0,1.0,srvA}
ALICE ==
  [username |-> <<"A","l","i","c","e">>,
   IP |-> <<"1","0",".","0",".","0",".","9">>,
   port |-> 54362, accessTime |-> 100, dataSent |-> 100, dataReceived |-> 0,
   score |-> Dec(10, 1),
   server |-> <<"s","r","v","A">>]
\* {Bob,10.0.0.4,24153,50,100,0,1.0,srvA}
BOB ==
  [username |-> <<"B","o","b">>,
   IP |-> <<"1","0",".","0",".","0",".","4">>,
   port |-> 24153, accessTime |-> 50, dataSent |-> 100, dataReceived |-> 0,
   score |-> Dec(10, 1),
   server |-> <<"s","r","v","A">>]
CAROL ==
  [username |-> <<"C","a","r","o","l">>,
   IP |-> <<"1","0",".","0",".","0",".","9">>,
   port |-> 80, accessTime |-> 75, dataSent |-> 0, dataReceived |-> 7,
   score |-> Dec(95, 1),
   server |-> <<"s","r","v","B">>]

RecordPool == {ALICE, BOB, CAROL}

\* Clauses as the user writes them: field, operator and value text, with the
\* spaces a user may leave around them.
ValidClausePool ==
  { [field |-> <<"a","c","c","e","s","s","T","i","m","e">>, operator |-> <<"<">>, value |-> <<"7","5">>],
    [field |-> <<" ","s","c","o","r","e">>, operator |-> <<">","=">>, value |-> <<"9",".","5">>],
    [field |-> <<"u","s","e","r","n","a","m","e">>, operator |-> <<"=">>, value |-> <<"B","o","b">>],
    [field |-> <<"I","P">>, operator |-> <<"!","=">>, value |-> <<" ","1","0",".","0",".","0",".","9">>],
    [field |-> <<"p","o","r","t">>, operator |-> <<">">>, value |-> <<"2","4","1","5","3">>],
    [field |-> <<"d","a","t","a","R","e","c","e","i","v","e","d">>, operator |-> <<"<","=">>, value |-> <<"0">>],
    [field |-> <<"d","a","t","a","S","e","n","t">>, operator |-> <<"=">>, value |-> <<"1","0","0">>],
    [field |-> <<"s","c","o","r","e"," ">>, operator |-> <<"!","=">>, value |-> <<"1",".","0">>] }

\* An unknown field, a relational operator on a str field, an operator that
\* is none of the six, a numeric field compared with text that is no number.
InvalidClausePool ==
  { [field |-> <<"b","o","g","u","s">>, operator |-> <<"=">>, value |-> <<"1">>],
    [field |-> <<"u","s","e","r","n","a","m","e">>, operator |-> <<"<">>, value |-> <<"B","o","b">>],
    [field |-> <<"p","o","r","t">>, operator |-> <<"=","<">>, value |-> <<"5">>],
    [field |-> <<"a","c","c","e","s","s","T","i","m","e">>, operator |-> <<"<">>, value |-> <<"a","b","c">>] }

ClausePool == ValidClausePool \cup InvalidClausePool

SeqsUpTo(S, n) == UNION {[1..k -> S] : k \in 0..n}

ClauseText(c) == c.field \o c.operator \o c.value

\* The query text: the clauses joined by commas.
RECURSIVE Render(_)
Render(clauses) ==
  IF clauses = <<>> THEN <<>>
  ELSE IF Len(clauses) = 1 THEN ClauseText(clauses[1])
  ELSE ClauseText(clauses[1]) \o <<",">> \o Render(Tail(clauses))

FilterInit ==
  /\ fRecords \in SeqsUpTo(RecordPool, MaxRecords)
  /\ fClauses \in SeqsUpTo(ClausePool, MaxClauses)
  /\ fQuery = Render(fClauses)
  /\ fResult = [raised |-> "none", value |-> <<>>]
  /\ fpc = "ready"

ApplyFilter ==
  /\ fpc = "ready"
  /\ fResult' = apply_filter(fRecords, fQuery)
  /\ fpc' = "done"
  /\ UNCHANGED <<fRecords, fClauses, fQuery, nonFilterVars>>

FilterSpecInit ==
  MenuInit /\ FilterInit /\ PQIdle /\ UpIdle /\ RxIdle /\ ThrIdle
  /\ SrvIdle /\ DsIdle

FilterNext == ApplyFilter

FilterSpec == FilterSpecInit /\ [][FilterNext]_vars

(***************************************************************************)
(* Properties of the query history (filterStack and its mirror file).      *)
(***************************************************************************)
\* The last menu choice pushed a frame or popped one, and completed.
PushOrPopCompleted ==
  /\ lastOp \in {"query", "filter", "undo"}
  /\ lastMsg = ""

\* The counter a mirror file stores in its first line: the line must read
\* 'Total filters: ', a decimal number, padding, newline.
CounterLine(f) ==
  LET line == ReadLine(f.data)
      n == Len(HEADER_PREFIX)
      rest == DropFirst(line, n)
  IN  IF /\ f.exists
         /\ Len(line) > n
         /\ SubSeq(line, 1, n) = HEADER_PREFIX
         /\ line[Len(line)] = NL
         /\ IsDecimal(Strip(rest))
      THEN [ok |-> TRUE, val |-> DigitsValue(Strip(rest))]
      ELSE [ok |-> FALSE, val |-> 0]

\* The lines of a mirror file after its first line.
FilterLines(f) ==
  LET lines == ReadLines(f.data)
  IN  IF lines = <<>> THEN <<>> ELSE Tail(lines)

\* C1: after every completed menu operation that pushes or pops a frame, the
\* depth of filterStack equals the count stored in the first line of the
\* mirror file.
C1_DepthEqualsCounter ==
  PushOrPopCompleted =>
    /\ CounterLine(queryLog).ok
    /\ CounterLine(queryLog).val = Len(filterStack)

C1_Witness ==
  /\ lastOp = "undo"
  /\ lastMsg = ""
  /\ Len(filterStack) = 2
  /\ CounterLine(queryLog).val = 2

\* C2: after completed pushes and undos the mirror file is one fixed-width
\* counter line 'Total filters: <count>' followed by exactly <count> lines,
\* the filter strings of the frames from the bottom of the stack to the top.
C2_MirrorFormat ==
  PushOrPopCompleted =>
    LET lines == ReadLines(queryLog.data)
        depth == Len(filterStack)
    IN  /\ queryLog.exists
        /\ Len(lines) = depth + 1
        /\ Len(lines[1]) = Len(HEADER_PREFIX) + COUNT_WIDTH + 1
        /\ CounterLine(queryLog).ok
        /\ CounterLine(queryLog).val = depth
        /\ Strip(DropFirst(lines[1], Len(HEADER_PREFIX))) = PyStr(depth)
        /\ \A i \in 1..depth : lines[i + 1] = filterStack[i][2] \o <<NL>>

C2_Witness ==
  /\ lastOp = "undo"
  /\ lastMsg = ""
  /\ Len(filterStack) = 2
  /\ filterStack[1][2] = SCORE_GT_4
  /\ filterStack[2][2] = <<>>
  /\ FilterLines(queryLog) = <<SCORE_GT_4 \o <<NL>>, <<NL>>>>

\* C3: one undo removes exactly the most recent frame and sets the current
\* view to the frame directly below it, or to the empty view if none remains.
C3_UndoOneStep ==
  [][(lastOp' = "undo" /\ Len(filterStack) > 0) =>
        /\ filterStack' = SubSeq(filterStack, 1, Len(filterStack) - 1)
        /\ IF Len(filterStack) > 1
           THEN <<curResults', curFilterString'>> = filterStack[Len(filterStack) - 1]
           ELSE curResults' = <<>> /\ curFilterString' = <<>>]_vars

\* 'score>4' then 'score<9.5' were pushed and one undo left the view of
\* 'score>4'.
C3_Witness ==
  /\ pushSnap.phase = "undone"
  /\ pushSnap.query = SCORE_LT_9_5
  /\ pushSnap.stack = <<(<<(<<>>), SCORE_GT_4>>)>>
  /\ pushSnap.log.data = FormatHeader(1) \o SCORE_GT_4 \o <<NL>>
  /\ filterStack = pushSnap.stack
  /\ curFilterString = SCORE_GT_4
  /\ curResults = <<>>

\* C4: a push immediately followed by an undo restores the stack and the
\* mirror file (its counter and its filter lines) to their state before the
\* push; a mirror file that did not exist before the push holds counter 0 and
\* no filter line afterwards.
C4_UndoSymmetry ==
  (pushSnap.phase = "undone" /\ lastMsg = "") =>
    /\ filterStack = pushSnap.stack
    /\ IF pushSnap.log.exists
       THEN queryLog = pushSnap.log
       ELSE /\ CounterLine(queryLog).ok
            /\ CounterLine(queryLog).val = 0
            /\ FilterLines(queryLog) = <<>>

C4_Witness ==
  /\ pushSnap.phase = "undone"
  /\ lastMsg = ""
  /\ Len(pushSnap.stack) = 2
  /\ pushSnap.log.exists
  /\ queryLog = pushSnap.log

\* C5: undo with an empty history stack reports that there is nothing to
\* undo and changes neither the stack, the mirror file, the current results
\* nor the current filter string.
C5_UndoEmptyChangesNothing ==
  [][(lastOp' = "undo" /\ Len(filterStack) = 0) =>
        /\ lastMsg' = "No filters to undo"
        /\ UNCHANGED <<filterStack, queryLog, curResults, curFilterString>>]_vars

C5_Witness ==
  /\ lastOp = "undo"
  /\ lastMsg = "No filters to undo"
  /\ filterStack = <<>>
  /\ curFilterString = SCORE_GT_4

\* C6: after every menu operation the current view (curResults,
\* curFilterString) equals the top frame of the history stack, and is the
\* empty result set when the stack is empty.
C6_ViewIsTopOfStack ==
  IF Len(filterStack) > 0
  THEN <<curResults, curFilterString>> = filterStack[Len(filterStack)]
  ELSE curResults = <<>>

\* The stack and the mirror file agree: depth = counter = number of filter
\* lines (a missing file stands for an empty history).
MirrorConsistent ==
  IF queryLog.exists
  THEN /\ CounterLine(queryLog).ok
       /\ CounterLine(queryLog).val = Len(filterStack)
       /\ CounterLine(queryLog).val = Len(FilterLines(queryLog))
  ELSE filterStack = <<>>

\* C7: a push or undo during which a read or write of the mirror file fails
\* leaves no inconsistency: afterwards the stack depth still equals the
\* file's counter and the counter the number of filter lines.
C7_IOErrorKeepsConsistency ==
  [][(MirrorConsistent /\ faults' = faults + 1) => MirrorConsistent']_vars

\* The mirror file's counter line is missing or unparsable, or its counter
\* differs from the number of filter lines.
MirrorCorrupt ==
  /\ queryLog.exists
  /\ \/ ~CounterLine(queryLog).ok
     \/ CounterLine(queryLog).val /= Len(FilterLines(queryLog))

\* C8: a push or undo that finds the mirror file inconsistent refuses to
\* continue: it mutates neither the file nor the stack.
C8_CorruptMirrorRefused ==
  [][(MirrorCorrupt /\ lastOp' \in {"query", "filter", "undo"}) =>
        UNCHANGED <<queryLog, filterStack>>]_vars

(***************************************************************************)
(* Properties of apply_filter.                                             *)
(***************************************************************************)
\* A clause of the filter language: a known field, an operator its type
\* accepts, and for a numeric field a numeric literal.
ValidClause(c) ==
  /\ HasKey(Strip(c.field))
  /\ IF KeyOf(Strip(c.field)) \in StrFields
     THEN c.operator \in {OP_EQ, OP_NE}
     ELSE /\ c.operator \in {OP_EQ, OP_NE, OP_LT, OP_GT, OP_LE, OP_GE}
          /\ PyFloat(c.value).ok

\* Whether record r satisfies valid clause c: exact text (in)equality for a
\* string field, comparison by value for a numeric one.
ClauseHolds(c, r) ==
  LET key == KeyOf(Strip(c.field))
  IN  IF key \in StrFields
      THEN IF c.operator = OP_EQ
           THEN r[key] = Strip(c.value)
           ELSE r[key] /= Strip(c.value)
      ELSE LET x == NumValue(r, key)
               y == PyFloat(c.value).val
           IN  CASE c.operator = OP_EQ -> NumEq(x, y)
                 [] c.operator = OP_NE -> ~NumEq(x, y)
                 [] c.operator = OP_LT -> NumLess(x, y)
                 [] c.operator = OP_GT -> NumLess(y, x)
                 [] c.operator = OP_LE -> NumLess(x, y) \/ NumEq(x, y)
                 [] c.operator = OP_GE -> NumLess(y, x) \/ NumEq(x, y)

\* The records of rs that satisfy every clause of cs, in the order of rs.
Matching(rs, cs) ==
  LET Passes(r) == \A k \in 1..Len(cs) : ClauseHolds(cs[k], r)
  IN  SelectSeq(rs, Passes)

C10_EmptyQueryPassesAll ==
  (fpc = "done" /\ fClauses = <<>>) =>
    fResult = [raised |-> "none", value |-> fRecords]

\* The clause names a field no log entry has.
UnknownField(c) == ~HasKey(Strip(c.field))

\* C11: a filter query that names an unknown field in any clause is rejected
\* with an error, for every record set: also for the empty one and when every
\* record already fails an earlier clause.
C11_UnknownFieldRejected ==
  (fpc = "done" /\ \E k \in 1..Len(fClauses) : UnknownField(fClauses[k])) =>
    fResult.raised /= "none"

\* The clause names a known field with an operator its type does not accept:
\* <, >, <=, >= on a string field, or a token that is none of the six.
BadOperator(c) ==
  /\ HasKey(Strip(c.field))
  /\ IF KeyOf(Strip(c.field)) \in StrFields
     THEN c.operator \notin {OP_EQ, OP_NE}
     ELSE c.operator \notin {OP_EQ, OP_NE, OP_LT, OP_GT, OP_LE, OP_GE}

\* C12: a clause whose operator is not accepted for its field's type raises
\* an evaluation error, whatever the number of records; it is never treated
\* as a satisfied clause.
C12_BadOperatorRaises ==
  (fpc = "done" /\ \E k \in 1..Len(fClauses) : BadOperator(fClauses[k])) =>
    fResult.raised /= "none"

(***************************************************************************)
(* PQSpec: one PriorityQueue driven by any interleaving of enqueue and     *)
(* dequeue calls.  The items are numbered in the order they are enqueued,  *)
(* so that the order among equal priorities can be observed.               *)
(***************************************************************************)
PQEnqueue ==
  \E priority \in 1..MaxPriority :
    /\ pqCount < MaxEnqueue
    /\ queue' = PriorityQueue_enqueue(queue, pqCount + 1, priority)
    /\ pqCount' = pqCount + 1
    /\ pqOut' = <<>>
    /\ pqRaised' = FALSE
    /\ UNCHANGED nonPQVars

\* dequeue; list.pop(0) raises IndexError on an empty list.
PQDequeue ==
  /\ IF Len(queue) = 0
     THEN /\ pqRaised' = TRUE
          /\ UNCHANGED <<queue, pqOut>>
     ELSE /\ queue' = PriorityQueue_dequeue(queue).queue
          /\ pqOut' = Append(pqOut, PriorityQueue_dequeue(queue).value)
          /\ pqRaised' = FALSE
  /\ UNCHANGED <<pqCount, nonPQVars>>

PQInit ==
  MenuInit /\ FilterIdle /\ PQIdle /\ UpIdle /\ RxIdle /\ ThrIdle /\ SrvIdle
  /\ DsIdle

PQNext == PQEnqueue \/ PQDequeue

PQSpec == PQInit /\ [][PQNext]_vars

\* Pair a is served before pair b: a higher priority number, or the same one
\* and enqueued earlier.
ServedBefore(a, b) == a[2] > b[2] \/ (a[2] = b[2] /\ a[1] < b[1])

\* C14: after any sequence of enqueue calls, successive dequeue calls return
\* the (item, priority) pairs in order of decreasing priority number, and
\* pairs of equal priority in the order they were enqueued; what is still
\* queued comes after everything already returned.
C14_DequeueOrder ==
  LET all == pqOut \o queue
  IN  \A i, j \in 1..Len(all) : i < j => ServedBefore(all[i], all[j])

\* The queue of test_enqueue_and_dequeue (priorities 2, 1, 2) drained in
\* full: item 1, then item 3, then item 2.
C14_Witness ==
  /\ queue = <<>>
  /\ pqOut = << <<1, 2>>, <<3, 2>>, <<2, 1>> >>

(***************************************************************************)
(* UploadSpec: menu choice 1 of do_menu on a generated log file:           *)
(* load_file_data line by line, then upload_logs when the queue is not     *)
(* empty.                                                                  *)
(***************************************************************************)
\* a well-formed line
LINE_ALICE ==
  <<"A","l","i","c","e",",","1","0",".","0",".","0",".","9",",","5","4","3","6","2",",","1","0","0",",","1","0","0",",","0",",","1",".","0",",","s","r","v","A","\n">>
\* well formed, blanks after the commas
LINE_BOB ==
  <<"B","o","b",","," ","1","0",".","0",".","0",".","4",","," ","2","4","1","5","3",","," ","5","0",","," ","1","0","0",","," ","0",","," ","1",".","0",","," ","s","r","v","A","\n">>
\* well formed, IPv6, the accessTime of LINE_ALICE
LINE_DAVE ==
  <<"D","a","v","e",",",":",":","1",",","4","4","3",",","1","0","0",",","5",",","5",",","0",".","1",",","s","r","v","B","\n">>
\* four fields
LINE_SHORT ==
  <<"E","v","e",",","1","0",".","0",".","0",".","9",",","8","0",",","7","5","\n">>
\* an octet above 255
LINE_BAD_IP ==
  <<"E","v","e",",","1","0",".","0",".","0",".","2","5","6",",","8","0",",","7","5",",","0",",","0",",","1",".","0",",","s","r","v","A","\n">>
\* a port that is no number
LINE_BAD_PORT ==
  <<"E","v","e",",","1","0",".","0",".","0",".","9",",","h","t","t","p",",","7","5",",","0",",","0",",","1",".","0",",","s","r","v","A","\n">>
\* no username, no server, port 70000, accessTime -1
LINE_UNCHECKED ==
  <<",","1","0",".","0",".","0",".","9",",","7","0","0","0","0",",","-","1",",","0",",","0",",","1",".","0",",","\n">>
\* an IPv4-mapped IPv6 address
LINE_MAPPED ==
  <<"F","r","a","n","k",",",":",":","f","f","f","f",":","1","0",".","0",".","0",".","9",",","8","0",",","7","5",",","0",",","0",",","1",".","0",",","s","r","v","A","\n">>

LinePool ==
  {LINE_ALICE, LINE_BOB, LINE_DAVE,
   LINE_SHORT, LINE_BAD_IP, LINE_BAD_PORT,
   LINE_UNCHECKED, LINE_MAPPED}

UploadInit ==
  /\ upLines \in SeqsUpTo(LinePool, MaxLines)
  /\ upPos = 0
  /\ logs = <<>>
  /\ upSkipped = 0
  /\ wire = <<>>
  /\ upMsg = ""
  /\ upPc = "load"

\* One iteration of the for loop of load_file_data.
UploadLoadLine ==
  /\ upPc = "load"
  /\ upPos < Len(upLines)
  /\ logs' = LoadLine(logs, upLines[upPos + 1])
  /\ upSkipped' = IF ParseLogLine(upLines[upPos + 1]).raised
                  THEN upSkipped + 1 ELSE upSkipped
  /\ upPos' = upPos + 1
  /\ UNCHANGED <<upLines, wire, upMsg, upPc, nonUpVars>>

\* load_file_data returned: "if (len(logs) > 0): upload_logs(sock, logs)",
\* inside the try of do_menu.
UploadSend ==
  /\ upPc = "load"
  /\ upPos = Len(upLines)
  /\ IF Len(logs) > 0
     THEN LET r == upload_logs(wire, logs)
          IN  /\ wire' = r.wire
              /\ logs' = r.logs
              /\ upMsg' = IF r.raised = "none" THEN "" ELSE "Error"
     ELSE UNCHANGED <<wire, logs, upMsg>>
  /\ upPc' = "done"
  /\ UNCHANGED <<upLines, upPos, upSkipped, nonUpVars>>

UploadSpecInit ==
  MenuInit /\ FilterIdle /\ PQIdle /\ UploadInit /\ RxIdle /\ ThrIdle
  /\ SrvIdle /\ DsIdle

UploadNext == UploadLoadLine \/ UploadSend

UploadSpec == UploadSpecInit /\ [][UploadNext]_vars

\* The while loop of upload_logs taken alone: the pairs in the order
\* dequeue returns them.
RECURSIVE Drain(_)
Drain(q) ==
  IF Len(q) = 0 THEN <<>>
  ELSE <<PriorityQueue_dequeue(q).value>> \o Drain(PriorityQueue_dequeue(q).queue)

\* The entries load_file_data built from these lines, in file order.
RECURSIVE Accepted(_)
Accepted(lines) ==
  IF lines = <<>> THEN <<>>
  ELSE (IF ParseLogLine(Head(lines)).raised THEN <<>>
        ELSE <<ParseLogLine(Head(lines)).logEntry>>) \o Accepted(Tail(lines))

\* entries in ascending accessTime, equal accessTime in the order given
RECURSIVE AscendingStable(_)
AscendingStable(entries) ==
  IF entries = <<>> THEN <<>>
  ELSE LET n == Len(entries)
           init == AscendingStable(SubSeq(entries, 1, n - 1))
           x == entries[n]
           k == Cardinality({i \in 1..Len(init) : init[i].accessTime <= x.accessTime})
       IN  SubSeq(init, 1, k) \o <<x>> \o SubSeq(init, k + 1, Len(init))

\* C13: the records load_file_data enqueued drain in ascending accessTime
\* order, records of equal accessTime in the order they were inserted.
C13_DrainsAscending ==
  upPc = "load" =>
    LET out == Drain(logs)
    IN  [i \in 1..Len(out) |-> out[i][1]] =
          AscendingStable(Accepted(SubSeq(upLines, 1, upPos)))

\* A valid IPv4 or IPv6 literal.
ValidIPLiteral(ip) == InetPton4(ip) \/ InetPton6(ip)

\* The constraints of a log entry: non-empty username and server, a valid
\* IP literal, a port of 16 bits, counters that are not negative.
ValidLogEntry(r) ==
  /\ r.username /= <<>>
  /\ r.server /= <<>>
  /\ ValidIPLiteral(r.IP)
  /\ r.port \in 0..65535
  /\ r.accessTime >= 0
  /\ r.dataSent >= 0
  /\ r.dataReceived >= 0

\* C15: every record load_file_data enqueues satisfies all the constraints
\* of a log entry.
C15_QueuedRecordsValid ==
  \A i \in 1..Len(logs) : ValidLogEntry(logs[i][1])

\* A line of eight fields whose numeric fields are numbers and whose IP is
\* a valid literal.
WellFormedLine(line) ==
  LET f == Split(line, ",")
  IN  /\ Len(f) = 8
      /\ \A k \in 3..6 : PyIntSigned(Strip(f[k])).ok
      /\ PyFloat(Strip(f[7])).ok
      /\ ValidIPLiteral(Strip(f[2]))

\* C16: load_file_data does not abort on a malformed line: a line with a
\* wrong field count, an invalid IP or a non-numeric numeric field is
\* skipped, and the queue holds a record for every other line.
C16_OnlyMalformedLinesSkipped ==
  upPc = "load" =>
    /\ Len(logs) + upSkipped = upPos
    /\ Len(logs) =
         Cardinality({k \in 1..upPos : WellFormedLine(upLines[k])})

\* load_file_data on a file that iterates as these lines: the queue it
\* returns.
RECURSIVE load_file_data(_)
load_file_data(lines) ==
  IF lines = <<>> THEN <<>>
  ELSE LoadLine(load_file_data(SubSeq(lines, 1, Len(lines) - 1)),
                lines[Len(lines)])

\* The records of the batch in the order dequeue returns them.
Batch == LET out == Drain(load_file_data(upLines))
         IN  [i \in 1..Len(out) |-> out[i][1]]

\* The record fits the wire format.
Fits(r) == send_log_entry(r).raised = "none"

\* C17: upload_logs on a queue of N records writes the 2-byte command code
\* 0x0001, the 4-byte count N and the N serialized records in dequeue
\* order, and the queue is empty when it returns.
C17_UploadWritesBatch ==
  (upPc = "done" /\ Len(Batch) > 0 /\ \A i \in 1..Len(Batch) : Fits(Batch[i])) =>
    /\ wire = <<0, 1>> \o PackI(Len(Batch)).bytes
                \o Concat([i \in 1..Len(Batch) |-> send_log_entry(Batch[i]).bytes])
    /\ logs = <<>>
    /\ upMsg = ""

\* s ends with t
EndsWith(s, t) ==
  Len(t) <= Len(s) /\ SubSeq(s, Len(s) - Len(t) + 1, Len(s)) = t

\* C18: when a record of the batch carries a value that does not fit its
\* wire field, that record alone is dropped and the upload continues: the
\* records that fit are all written, in dequeue order, and the batch is not
\* abandoned part-way.
C18_UnfitRecordDropped ==
  (/\ upPc = "done"
   /\ \E i \in 1..Len(Batch) : ~Fits(Batch[i])
   /\ \E i \in 1..Len(Batch) : Fits(Batch[i])) =>
    /\ EndsWith(wire, Concat(SelectSeq([i \in 1..Len(Batch) |->
                  send_log_entry(Batch[i]).bytes], LAMBDA b : b /= <<>>)))
    /\ logs = <<>>

(***************************************************************************)
(* WireSpec: the peer hands one logEntry to send_log_entry and may write   *)
(* the first bytes of the next message or close part-way; this side runs   *)
(* recv_log_entry.  One step is one sock.recv of recv_all, which returns   *)
(* any number of the bytes that arrived, from 1 to the number asked for,   *)
(* or nothing once the peer closed.                                        *)
(***************************************************************************)
\* {Dave,::1,443,100,5,5,0.1,srvB}: the score is no 32-bit float
DAVE == ParseLogLine(LINE_DAVE).logEntry
\* every field at an end of its range
EDGE ==
  [username |-> <<"Z">>,
   IP |-> <<":",":">>,
   port |-> 65535, accessTime |-> 2147483647, dataSent |-> 65536,
   dataReceived |-> 256,
   score |-> Dec(0 - 25, 1),
   server |-> <<"s">>]

WirePool == {ALICE, CAROL, DAVE, EDGE}

\* The first two bytes of a following message (QUERY_CMD).
NextMessage == <<0, 2>>

Prefixes(bs) == {SubSeq(bs, 1, n) : n \in 0..Len(bs)}

WireInit ==
  /\ rxEntry \in WirePool
  /\ rxDelivered \in Prefixes(send_log_entry(rxEntry).bytes)
                       \cup {send_log_entry(rxEntry).bytes \o NextMessage}
  /\ rxStream = rxDelivered
  /\ rxData = <<>>
  /\ rxLengths = <<>>
  /\ rxBody = <<>>
  /\ rxResult = <<>>
  /\ rxSplit = FALSE
  /\ rxPc = "lengths"

\* The length the running recv_all was called with.
RecvLength == IF rxPc = "lengths" THEN LENGTHS_SIZE ELSE BodySize(rxLengths)

\* sock.recv returned k bytes: "data += more", and when the while loop of
\* recv_all ends, recv_log_entry goes on with what recv_all returned.
RecvChunk ==
  /\ rxPc \in {"lengths", "body"}
  /\ rxStream /= <<>>
  /\ \E k \in 1..Len(rxStream) :
       /\ k <= RecvWant(RecvLength, rxData)
       /\ LET data == rxData \o SubSeq(rxStream, 1, k)
          IN  /\ rxStream' = DropFirst(rxStream, k)
              /\ rxSplit' = (rxSplit \/ k < RecvWant(RecvLength, rxData))
              /\ IF Len(data) < RecvLength
                 THEN /\ rxData' = data
                      /\ UNCHANGED <<rxLengths, rxBody, rxResult, rxPc>>
                 ELSE IF rxPc = "lengths"
                 THEN /\ rxLengths' = data
                      /\ rxData' = <<>>
                      /\ rxPc' = "body"
                      /\ UNCHANGED <<rxBody, rxResult>>
                 ELSE /\ rxBody' = data
                      /\ rxResult' = UnpackLogEntry(rxLengths, data)
                      /\ rxData' = <<>>
                      /\ rxPc' = "done"
                      /\ UNCHANGED rxLengths
  /\ UNCHANGED <<rxEntry, rxDelivered, nonRxVars>>

\* sock.recv returned b'': raise EOFError('Socket connection broken')
RecvEOF ==
  /\ rxPc \in {"lengths", "body"}
  /\ rxStream = <<>>
  /\ rxData' = <<>>
  /\ rxPc' = "EOFError"
  /\ UNCHANGED <<rxEntry, rxDelivered, rxStream, rxLengths, rxBody, rxResult,
                 rxSplit, nonRxVars>>

WireSpecInit ==
  MenuInit /\ FilterIdle /\ PQIdle /\ UpIdle /\ WireInit /\ ThrIdle
  /\ SrvIdle /\ DsIdle

WireNext == RecvChunk \/ RecvEOF

WireSpec == WireSpecInit /\ [][WireNext]_vars

\* The float m / 10^e is a 32-bit float: scaled to a 24-bit mantissa, no
\* fraction is left.
IsFloat32(x) ==
  \/ x.m = 0
  \/ LET mag == IF x.m < 0 THEN 0 - x.m ELSE x.m
     IN  (mag * Pow2(23 - Log2Floor(mag, Pow10(x.e)))) % Pow10(x.e) = 0

\* A log entry valid by every constraint of its fields, the score included.
ValidWireEntry(r) == ValidLogEntry(r) /\ IsFloat32(r.score)

\* The decimal d and the binary b are the same number.
SameNumber(d, b) ==
  IF b.e2 >= 0 THEN d.m = b.m * Pow2(b.e2) * Pow10(d.e)
  ELSE d.m * Pow2(0 - b.e2) = b.m * Pow10(d.e)

\* The decoded entry equals the original in every field.
SameEntry(decoded, original) ==
  /\ \A k \in StrFields \cup IntFields : decoded[k] = original[k]
  /\ SameNumber(original.score, decoded.score)

\* C19: for every valid log entry, what recv_log_entry decodes from the
\* bytes send_log_entry wrote equals the original in every field.
C19_WireRoundTrip ==
  (rxPc = "done" /\ ValidWireEntry(rxEntry)) => SameEntry(rxResult, rxEntry)

\* Carol's entry (score 9.5, not an integer) came back, read in pieces.
C19_Witness ==
  /\ rxPc = "done"
  /\ rxEntry = CAROL
  /\ rxSplit
  /\ SameEntry(rxResult, rxEntry)

\* The bytes recv_log_entry has taken off the connection, in order.
Taken == rxLengths \o rxBody \o rxData

\* C20: however the transport splits the bytes, recv_all returns exactly
\* the bytes asked for, in order; it raises when the connection closes
\* before they arrived, and recv_log_entry returns no partial record.
C20_RecvAllExact ==
  /\ Taken \o rxStream = rxDelivered \/ rxPc = "EOFError"
  /\ rxPc \in {"body", "done"} =>
       /\ Len(rxLengths) = LENGTHS_SIZE
       /\ rxLengths = SubSeq(rxDelivered, 1, LENGTHS_SIZE)
  /\ rxPc = "done" =>
       /\ Len(rxBody) = BodySize(rxLengths)
       /\ rxLengths \o rxBody = send_log_entry(rxEntry).bytes
       /\ rxResult = UnpackLogEntry(rxLengths, rxBody)
  /\ rxPc = "EOFError" =>
       Len(rxDelivered) < Len(send_log_entry(rxEntry).bytes)
  /\ rxPc /= "done" => rxResult = <<>>
  /\ (rxPc \in {"lengths", "body"} /\ rxStream = <<>>) =>
       Len(rxDelivered) < Len(send_log_entry(rxEntry).bytes)

\* Both recv_all calls got their bytes in pieces and returned; the bytes of
\* the next message are still on the connection.
C20_Witness ==
  /\ rxPc = "done"
  /\ rxSplit
  /\ rxStream = NextMessage


(***************************************************************************)
(* handle_new_connections_threads (ServerPython.py lines 47 to 83): the    *)
(* notify_100 thread, and one handle_client thread for each accepted       *)
(* connection.  Every statement that reads or writes shared state is one   *)
(* step of its thread.                                                     *)
(***************************************************************************)
\* The mutation of CanAcquire: acquire never blocks.
CanAcquireHeld(lock) == TRUE

\* threading.Lock.acquire, and the lock of threading.Condition: blocks while
\* another thread holds the lock.
CanAcquire(lock) == lock = FREE

\* The mutation of ReachedThreshold: passed, not only reached.
ReachedThresholdOrPassed(counter) == counter >= THRESHOLD

\* The notification sent at the first message.
ReachedFirst(counter) == counter = 1

\* Line 60: if messageCounter == 100
ReachedThreshold(counter) == counter = THRESHOLD

\* Messages recv has returned to the handlers so far.
Received ==
  processed + Cardinality({h \in Handlers : hPc[h] \in {"lock", "read", "write"}})

\* Lines 75-76: notifyThread.start(), before the accept loop.
StartNotifyThread ==
  /\ wPc = "unborn"
  /\ wPc' = "start"
  /\ UNCHANGED <<messageCounter, messageCounterLock, condition, hPc,
                 hNextCount, wOut, notifications, processed>>
  /\ UNCHANGED nonThrVars

\* Lines 79-83: accept a connection and start its handle_client thread.
ThrAccept(h) ==
  /\ wPc # "unborn"
  /\ hPc[h] = "unborn"
  /\ \A g \in Handlers : g < h => hPc[g] # "unborn"
  /\ hPc' = [hPc EXCEPT ![h] = "recv"]
  /\ UNCHANGED <<messageCounter, messageCounterLock, condition, hNextCount,
                 wPc, wOut, notifications, processed>>
  /\ UNCHANGED nonThrVars

\* Line 52 returning a message.
ThrRecvData(h) ==
  /\ hPc[h] = "recv"
  /\ Received < THRESHOLD + MaxExtra
  /\ hPc' = [hPc EXCEPT ![h] = "lock"]
  /\ UNCHANGED <<messageCounter, messageCounterLock, condition, hNextCount,
                 wPc, wOut, notifications, processed>>
  /\ UNCHANGED nonThrVars

\* Line 52 returning b'': break (line 54) and conn.close() (line 65).
ThrRecvEOF(h) ==
  /\ hPc[h] = "recv"
  /\ hPc' = [hPc EXCEPT ![h] = "closed"]
  /\ UNCHANGED <<messageCounter, messageCounterLock, condition, hNextCount,
                 wPc, wOut, notifications, processed>>
  /\ UNCHANGED nonThrVars

\* Line 52 or line 64 raising OSError (the peer reset the connection): the
\* exception ends the thread; line 65 is not reached.
ThrConnFail(h) ==
  /\ hPc[h] \in {"recv", "send"}
  /\ hPc' = [hPc EXCEPT ![h] = "raised"]
  /\ UNCHANGED <<messageCounter, messageCounterLock, condition, hNextCount,
                 wPc, wOut, notifications, processed>>
  /\ UNCHANGED nonThrVars

\* Line 56: with messageCounterLock
ThrLock(h) ==
  /\ hPc[h] = "lock"
  /\ CanAcquire(messageCounterLock)
  /\ messageCounterLock' = h
  /\ hPc' = [hPc EXCEPT ![h] = "read"]
  /\ UNCHANGED <<messageCounter, condition, hNextCount, wPc, wOut,
                 notifications, processed>>
  /\ UNCHANGED nonThrVars

\* Lines 57-58: nextCount = messageCounter + 1, then the 0.1 s wait.
ThrRead(h) ==
  /\ hPc[h] = "read"
  /\ hNextCount' = [hNextCount EXCEPT ![h] = messageCounter + 1]
  /\ hPc' = [hPc EXCEPT ![h] = "write"]
  /\ UNCHANGED <<messageCounter, messageCounterLock, condition, wPc, wOut,
                 notifications, processed>>
  /\ UNCHANGED nonThrVars

\* Line 59: messageCounter = nextCount
ThrWrite(h) ==
  /\ hPc[h] = "write"
  /\ messageCounter' = hNextCount[h]
  /\ processed' = processed + 1
  /\ hPc' = [hPc EXCEPT ![h] = "test"]
  /\ UNCHANGED <<messageCounterLock, condition, hNextCount, wPc, wOut,
                 notifications>>
  /\ UNCHANGED nonThrVars

\* Line 60: if messageCounter == 100
ThrTest(h) ==
  /\ hPc[h] = "test"
  /\ hPc' = [hPc EXCEPT ![h] = IF ReachedThreshold(messageCounter)
                                 THEN "cond" ELSE "unlock"]
  /\ UNCHANGED <<messageCounter, messageCounterLock, condition, hNextCount,
                 wPc, wOut, notifications, processed>>
  /\ UNCHANGED nonThrVars

\* Line 61: with condition
ThrCondAcquire(h) ==
  /\ hPc[h] = "cond"
  /\ CanAcquire(condition)
  /\ condition' = h
  /\ hPc' = [hPc EXCEPT ![h] = "notify"]
  /\ UNCHANGED <<messageCounter, messageCounterLock, hNextCount, wPc, wOut,
                 notifications, processed>>
  /\ UNCHANGED nonThrVars

\* Line 62: condition.notify_all() wakes the threads waiting now, and no
\* thread that waits later; then the with block of line 61 ends.
ThrNotifyAll(h) ==
  /\ hPc[h] = "notify"
  /\ wPc' = IF wPc = "waiting" THEN "notified" ELSE wPc
  /\ notifications' = Append(notifications, <<messageCounter, hNextCount[h]>>)
  /\ condition' = FREE
  /\ hPc' = [hPc EXCEPT ![h] = "unlock"]
  /\ UNCHANGED <<messageCounter, messageCounterLock, hNextCount, wOut,
                 processed>>
  /\ UNCHANGED nonThrVars

\* The end of the with block of line 56.  nextCount is not read again
\* before line 57 assigns it, so its value is dropped here.
ThrUnlock(h) ==
  /\ hPc[h] = "unlock"
  /\ messageCounterLock' = IF messageCounterLock = h THEN FREE
                           ELSE messageCounterLock
  /\ hNextCount' = [hNextCount EXCEPT ![h] = 0]
  /\ hPc' = [hPc EXCEPT ![h] = "send"]
  /\ UNCHANGED <<messageCounter, condition, wPc, wOut, notifications,
                 processed>>
  /\ UNCHANGED nonThrVars

\* Line 64: conn.sendall(data), then back to line 52.
ThrSend(h) ==
  /\ hPc[h] = "send"
  /\ hPc' = [hPc EXCEPT ![h] = "recv"]
  /\ UNCHANGED <<messageCounter, messageCounterLock, condition, hNextCount,
                 wPc, wOut, notifications, processed>>
  /\ UNCHANGED nonThrVars

\* Line 68: with condition
WaiterAcquire ==
  /\ wPc = "start"
  /\ CanAcquire(condition)
  /\ condition' = WAITER
  /\ wPc' = "locked"
  /\ UNCHANGED <<messageCounter, messageCounterLock, hPc, hNextCount, wOut,
                 notifications, processed>>
  /\ UNCHANGED nonThrVars

\* Line 69: condition.wait() releases the lock and blocks until notified.
WaiterWait ==
  /\ wPc = "locked"
  /\ condition' = FREE
  /\ wPc' = "waiting"
  /\ UNCHANGED <<messageCounter, messageCounterLock, hPc, hNextCount, wOut,
                 notifications, processed>>
  /\ UNCHANGED nonThrVars

\* Line 69: a notified wait() takes the lock again and returns.
WaiterWake ==
  /\ wPc = "notified"
  /\ CanAcquire(condition)
  /\ condition' = WAITER
  /\ wPc' = "woken"
  /\ UNCHANGED <<messageCounter, messageCounterLock, hPc, hNextCount, wOut,
                 notifications, processed>>
  /\ UNCHANGED nonThrVars

\* Lines 70-73: print the outcome; the with block ends and the thread
\* terminates.
WaiterPrint ==
  /\ wPc = "woken"
  /\ wOut' = IF messageCounter >= THRESHOLD THEN "released" ELSE "error"
  /\ condition' = FREE
  /\ wPc' = "done"
  /\ UNCHANGED <<messageCounter, messageCounterLock, hPc, hNextCount,
                 notifications, processed>>
  /\ UNCHANGED nonThrVars

HandlerStep(h) ==
  \/ ThrLock(h)
  \/ ThrRead(h)
  \/ ThrWrite(h)
  \/ ThrTest(h)
  \/ ThrCondAcquire(h)
  \/ ThrNotifyAll(h)
  \/ ThrUnlock(h)
  \/ ThrSend(h)

WaiterStep == WaiterAcquire \/ WaiterWait \/ WaiterWake \/ WaiterPrint

ThreadInit ==
  MenuInit /\ FilterIdle /\ PQIdle /\ UpIdle /\ RxIdle /\ ThrIdle
  /\ SrvIdle /\ DsIdle

ThreadNext ==
  \/ StartNotifyThread
  \/ WaiterStep
  \/ \E h \in Handlers : ThrAccept(h)
  \/ \E h \in Handlers : ThrRecvData(h)
  \/ \E h \in Handlers : ThrRecvEOF(h)
  \/ \E h \in Handlers : ThrConnFail(h)
  \/ \E h \in Handlers : HandlerStep(h)

ThreadSpec == ThreadInit /\ [][ThreadNext]_vars

\* A started thread that can run does run: the scheduler lets the
\* notify_100 thread and every handle_client thread take their next step.
\* When a peer sends, closes or resets is not the program's to decide.
ThreadFairSpec ==
  /\ ThreadSpec
  /\ WF_vars(StartNotifyThread)
  /\ WF_vars(WaiterStep)
  /\ \A h \in Handlers : WF_vars(HandlerStep(h))


\* The handle_client threads inside the with block of line 56.
InCritical == {h \in Handlers :
                 hPc[h] \in {"read", "write", "test", "cond", "notify", "unlock"}}

\* C24: in threads mode messageCounter is updated under mutual exclusion: at
\* most one handler is inside the locked block, it holds messageCounterLock,
\* and no increment is lost: after k assignments messageCounter is k.
C24_NoLostIncrement ==
  /\ Cardinality(InCritical) <= 1
  /\ \A h \in InCritical : messageCounterLock = h
  /\ messageCounter = processed

\* Two handlers contend: one is about to assign the counter while the other
\* waits for the lock, after both have counted messages.
C24_Witness ==
  /\ hPc[1] = "write"
  /\ hPc[2] = "lock"
  /\ processed >= 2
  /\ processed < THRESHOLD

\* C25: in threads mode notify_all() is executed at most once, by the
\* increment that brings messageCounter to exactly 100, never before.
C25_NotifyOnceAtThreshold ==
  /\ Len(notifications) <= 1
  /\ \A i \in 1..Len(notifications) :
       notifications[i] = <<THRESHOLD, THRESHOLD>>
  /\ messageCounter < THRESHOLD => notifications = <<>>

\* The counter has passed 100 and notify_all() has run.
C25_Witness ==
  /\ messageCounter > THRESHOLD
  /\ Len(notifications) = 1

\* C26: in threads mode, in every fair execution in which the counter
\* reaches 100, the notify_100 waiter is eventually released and terminates.
C26_WaiterReleased == (messageCounter >= THRESHOLD) ~> (wPc = "done")


(***************************************************************************)
(* The five strategies of ServerPython.py, each serving MaxConns peers.    *)
(* A peer connects, sends bytes, may send urgent data, and ends by closing *)
(* its sending side or by a failure of the transport (a reset).  recv      *)
(* returns every byte that has arrived, as the buffer of 1024 bytes is     *)
(* larger than all a peer sends here.                                      *)
(***************************************************************************)
Strategies == {"simple", "threads", "select", "poll", "pool"}
Blocking == {"simple", "threads", "pool"}

\* The peers' side of the connections, and the multiplexers' bookkeeping.
peerVars == <<cState, urgent, inbox, sentLog>>
muxVars == <<inputs, outputs, message_queues, fd_to_socket, registered, ready>>

\* The n bytes peer c sends after it has sent k: each byte carries the
\* number of the connection and its place in the stream.
Message(c, k, n) == [j \in 1..n |-> 10 * c + k + j]

RECURSIVE TotalSent(_)
TotalSent(cs) ==
  IF cs = {} THEN 0
  ELSE LET c == CHOOSE x \in cs : TRUE
       IN  Len(sentLog[c]) + TotalSent(cs \ {c})

\* x in list
Contains(list, x) == \E k \in 1..Len(list) : list[k] = x

\* A remove that leaves the list as it is.
ListRemoveNothing(list, x) == list

\* list.remove(x) for an x that is in the list: the first x is removed.
ListRemove(list, x) ==
  LET k == CHOOSE j \in 1..Len(list) :
             list[j] = x /\ \A l \in 1..(j - 1) : list[l] # x
  IN  SubSeq(list, 1, k - 1) \o SubSeq(list, k + 1, Len(list))

\* The socket is not added.
NotAdded(outs, s) == outs

\* Lines 123-124: if s not in outputs: outputs.append(s)
AppendIfAbsent(outs, s) == IF Contains(outs, s) THEN outs ELSE Append(outs, s)

\* del d[key]
DictDel(d, key) == [k \in DOMAIN d \ {key} |-> d[k]]

\* d[key] = value
DictSet(d, key, value) ==
  [k \in DOMAIN d \cup {key} |-> IF k = key THEN value ELSE d[k]]

\* The three lists of select.select, all handled.
NothingReady == [readable |-> <<>>, writable |-> <<>>, exceptional |-> <<>>]

\* The strategy start_server hands the listening socket to, at its loop.
ServerInit ==
  /\ strategy \in Strategies
  /\ srvPc = IF strategy \in {"select", "poll"} THEN "loop" ELSE "accept"
  /\ cState = [c \in Conns |-> "none"]
  /\ urgent = {}
  /\ inbox = [c \in Conns |-> <<>>]
  /\ sentLog = [c \in Conns |-> <<>>]
  /\ got = [c \in Conns |-> <<>>]
  /\ sock = [c \in Conns |-> "none"]
  /\ hdl = [c \in Conns |-> "none"]
  /\ hData = [c \in Conns |-> <<>>]
  /\ inputs = IF strategy = "select" THEN <<LISTENER>> ELSE <<>>
  /\ outputs = <<>>
  /\ message_queues = <<>>
  /\ fd_to_socket = IF strategy = "poll" THEN {LISTENER} ELSE {}
  /\ registered = IF strategy = "poll"
                  THEN DictSet(<<>>, LISTENER, {"POLLIN"}) ELSE <<>>
  /\ ready = IF strategy = "select" THEN NothingReady ELSE <<>>
  /\ messageCounter = IF strategy = "pool" THEN <<>> ELSE 0

\* The server process still runs its strategy.
Serving == srvPc \notin {"raised", "returned"}

\* A peer connects: the connection waits in the backlog of listen(5).
Connect(c) ==
  /\ Serving
  /\ cState[c] = "none"
  /\ \A d \in Conns : d < c => cState[d] # "none"
  /\ cState' = [cState EXCEPT ![c] = "open"]
  /\ sock' = [sock EXCEPT ![c] = "backlog"]
  /\ UNCHANGED <<strategy, srvPc, urgent, inbox, sentLog, got, hdl, hData,
                 muxVars, messageCounter>>
  /\ UNCHANGED nonSrvVars

\* A peer sends a message of n bytes.
ClientSend(c, n) ==
  /\ cState[c] = "open"
  /\ TotalSent(Conns) + n <= MaxBytes
  /\ LET m == Message(c, Len(sentLog[c]), n)
     IN  /\ inbox' = [inbox EXCEPT ![c] = @ \o m]
         /\ sentLog' = [sentLog EXCEPT ![c] = @ \o m]
  /\ UNCHANGED <<strategy, srvPc, cState, urgent, got, sock, hdl, hData,
                 muxVars, messageCounter>>
  /\ UNCHANGED nonSrvVars

\* The filter string of the query frame a peer sends.
QueryText == <<"p", "o", "r", "t", ">", "0">>

\* The bytes submit_query is written to send (ClientPython.py lines
\* 228-231): the command in 2 bytes, the length of the encoded query in 4
\* bytes, both in network byte order, and the encoded query.
QueryFrame(query) ==
  PackH(QUERY_CMD).bytes \o PackI(Len(Utf8Encode(query))).bytes
  \o Utf8Encode(query)

\* A peer sends a query frame, the first bytes sent in the run.
ClientQuery(c) ==
  /\ cState[c] = "open"
  /\ TotalSent(Conns) = 0
  /\ inbox' = [inbox EXCEPT ![c] = QueryFrame(QueryText)]
  /\ sentLog' = [sentLog EXCEPT ![c] = QueryFrame(QueryText)]
  /\ UNCHANGED <<strategy, srvPc, cState, urgent, got, sock, hdl, hData,
                 muxVars, messageCounter>>
  /\ UNCHANGED nonSrvVars

\* A peer sends a byte of urgent data (one peer does, in one run).
ClientUrgent(c) ==
  /\ cState[c] = "open"
  /\ urgent = {}
  /\ urgent' = urgent \cup {c}
  /\ UNCHANGED <<strategy, srvPc, cState, inbox, sentLog, got, sock, hdl,
                 hData, muxVars, messageCounter>>
  /\ UNCHANGED nonSrvVars

\* A peer closes its sending side and goes on reading.
ClientShutdown(c) ==
  /\ cState[c] = "open"
  /\ cState' = [cState EXCEPT ![c] = "shut"]
  /\ UNCHANGED <<strategy, srvPc, urgent, inbox, sentLog, got, sock, hdl,
                 hData, muxVars, messageCounter>>
  /\ UNCHANGED nonSrvVars

\* The transport of a connection fails: the server's end is reset.
ClientReset(c) ==
  /\ cState[c] \in {"open", "shut"}
  /\ cState' = [cState EXCEPT ![c] = "reset"]
  /\ inbox' = [inbox EXCEPT ![c] = <<>>]
  /\ UNCHANGED <<strategy, srvPc, urgent, sentLog, got, sock, hdl, hData,
                 muxVars, messageCounter>>
  /\ UNCHANGED nonSrvVars

\* The connection accept() returns: the oldest in the backlog.
NextInBacklog(c) ==
  /\ sock[c] = "backlog"
  /\ \A d \in Conns : d < c => sock[d] # "backlog"

\* Lines 42-44, 79-83 and 218-221: accept a connection and call, start or
\* submit handle_client for it.  The thread-pool strategy wraps the
\* connection with setup_ssl first.
AcceptBlocking(c) ==
  /\ strategy \in Blocking
  /\ srvPc = "accept"
  /\ NextInBacklog(c)
  /\ sock' = [sock EXCEPT ![c] = "open"]
  /\ hdl' = [hdl EXCEPT ![c] = "recv"]
  /\ srvPc' = IF strategy = "simple" THEN "handling" ELSE srvPc
  /\ UNCHANGED <<strategy, peerVars, got, hData, muxVars, messageCounter>>
  /\ UNCHANGED nonSrvVars

\* Lines 218-223: setup_ssl raises (the TLS handshake with the peer fails);
\* the bare except prints 'Shutting down gracefully...' and the with block
\* waits for the handlers submitted before.
AcceptTLSFails(c) ==
  /\ strategy = "pool"
  /\ srvPc = "accept"
  /\ NextInBacklog(c)
  /\ sock' = [sock EXCEPT ![c] = "closed"]
  /\ srvPc' = "draining"
  /\ UNCHANGED <<strategy, peerVars, got, hdl, hData, muxVars,
                 messageCounter>>
  /\ UNCHANGED nonSrvVars

\* The end of the with block of line 215: every submitted handle_client has
\* ended, and handle_new_connections_thread_pool returns.
PoolReturns ==
  /\ strategy = "pool"
  /\ srvPc = "draining"
  /\ \A c \in Conns : hdl[c] \notin {"recv", "send"}
  /\ srvPc' = "returned"
  /\ UNCHANGED <<strategy, peerVars, got, sock, hdl, hData, muxVars,
                 messageCounter>>
  /\ UNCHANGED nonSrvVars

\* handle_client of the three blocking strategies raising OSError from recv
\* or sendall: conn.close() is not reached.  In the simple strategy the
\* exception leaves handle_new_connections_simple as well.
HandlerRaises(c) ==
  /\ hdl' = [hdl EXCEPT ![c] = "raised"]
  /\ srvPc' = IF strategy = "simple" THEN "raised" ELSE srvPc

\* The count of lines 56-62 and of line 209.  The threads strategy counts
\* under messageCounterLock; the thread-pool strategy appends to a list.
Counted(counter, data) ==
  CASE strategy = "simple" -> counter
    [] strategy = "pool" -> Append(counter, data)
    [] OTHER -> counter + 1

\* Lines 34-36, 52-62 and 205-209: conn.recv(1024), and the count.
HandlerRecv(c) ==
  /\ strategy \in Blocking
  /\ hdl[c] = "recv"
  /\ \/ /\ cState[c] = "reset"
        /\ HandlerRaises(c)
        /\ UNCHANGED <<inbox, hData, sock, messageCounter>>
     \/ /\ cState[c] # "reset"
        /\ inbox[c] # <<>>
        /\ hData' = [hData EXCEPT ![c] = inbox[c]]
        /\ inbox' = [inbox EXCEPT ![c] = <<>>]
        /\ messageCounter' = Counted(messageCounter, inbox[c])
        /\ hdl' = [hdl EXCEPT ![c] = "send"]
        /\ UNCHANGED <<srvPc, sock>>
     \/ /\ cState[c] = "shut"
        /\ inbox[c] = <<>>
        /\ sock' = [sock EXCEPT ![c] = "closed"]
        /\ hdl' = [hdl EXCEPT ![c] = "returned"]
        /\ srvPc' = IF strategy = "simple" THEN "accept" ELSE srvPc
        /\ UNCHANGED <<inbox, hData, messageCounter>>
  /\ UNCHANGED <<strategy, cState, urgent, sentLog, got, muxVars>>
  /\ UNCHANGED nonSrvVars

\* Lines 38, 64 and 211: conn.sendall(data).
HandlerSend(c) ==
  /\ strategy \in Blocking
  /\ hdl[c] = "send"
  /\ \/ /\ cState[c] = "reset"
        /\ HandlerRaises(c)
        /\ UNCHANGED <<got, hData>>
     \/ /\ cState[c] # "reset"
        /\ got' = [got EXCEPT ![c] = @ \o hData[c]]
        /\ hData' = [hData EXCEPT ![c] = <<>>]
        /\ hdl' = [hdl EXCEPT ![c] = "recv"]
        /\ UNCHANGED srvPc
  /\ UNCHANGED <<strategy, peerVars, sock, muxVars, messageCounter>>
  /\ UNCHANGED nonSrvVars

(***************************************************************************)
(* handle_new_connections_select (lines 86 to 143).  One step calls        *)
(* select.select; each socket of the three lists it returned is handled in *)
(* one step, in the order of the three for loops.                          *)
(***************************************************************************)
\* A recv or accept on s would not block.
ReadReady(s) ==
  IF s = LISTENER THEN \E c \in Conns : sock[c] = "backlog"
  ELSE inbox[s] # <<>> \/ cState[s] \in {"shut", "reset"}

\* Urgent data is pending on s.
UrgentReady(s) == s \in urgent

\* A send on s would not block: the peers read what they are sent.
WriteReady(s) == TRUE

\* Line 95: select.select(inputs, outputs, inputs) blocks until a socket
\* is ready.
SelectCall ==
  /\ strategy = "select"
  /\ srvPc = "loop"
  /\ ready = NothingReady
  /\ inputs # <<>>
  /\ LET r == [readable |-> SelectSeq(inputs, ReadReady),
               writable |-> SelectSeq(outputs, WriteReady),
               exceptional |-> SelectSeq(inputs, UrgentReady)]
     IN  /\ r # NothingReady
         /\ ready' = r
  /\ UNCHANGED <<strategy, srvPc, peerVars, got, sock, hdl, hData, inputs,
                 outputs, message_queues, fd_to_socket, registered,
                 messageCounter>>
  /\ UNCHANGED nonSrvVars

\* Lines 102-124: one socket of readable.
SelectReadable ==
  /\ strategy = "select"
  /\ srvPc = "loop"
  /\ ready.readable # <<>>
  /\ LET s == Head(ready.readable)
         rest == [ready EXCEPT !.readable = Tail(@)]
     IN  IF s = LISTENER
         THEN \E c \in Conns :
                /\ NextInBacklog(c)
                /\ sock' = [sock EXCEPT ![c] = "open"]
                /\ inputs' = Append(inputs, c)
                /\ message_queues' = DictSet(message_queues, c, <<>>)
                /\ ready' = rest
                /\ UNCHANGED <<srvPc, inbox, outputs, messageCounter>>
         ELSE \/ /\ cState[s] = "reset"
                 /\ srvPc' = "raised"
                 /\ UNCHANGED <<inbox, sock, inputs, outputs, message_queues,
                                ready, messageCounter>>
              \/ /\ cState[s] # "reset"
                 /\ inbox[s] # <<>>
                 /\ inbox' = [inbox EXCEPT ![s] = <<>>]
                 /\ messageCounter' = messageCounter + 1
                 /\ message_queues' =
                      [message_queues EXCEPT ![s] = Append(@, inbox[s])]
                 /\ outputs' = AppendIfAbsent(outputs, s)
                 /\ ready' = rest
                 /\ UNCHANGED <<srvPc, sock, inputs>>
              \/ /\ cState[s] = "shut"
                 /\ inbox[s] = <<>>
                 /\ outputs' = IF Contains(outputs, s)
                               THEN ListRemove(outputs, s) ELSE outputs
                 /\ inputs' = ListRemove(inputs, s)
                 /\ sock' = [sock EXCEPT ![s] = "closed"]
                 /\ message_queues' = DictDel(message_queues, s)
                 /\ ready' = rest
                 /\ UNCHANGED <<srvPc, inbox, messageCounter>>
  /\ UNCHANGED <<strategy, cState, urgent, sentLog, got, hdl, hData,
                 fd_to_socket, registered>>
  /\ UNCHANGED nonSrvVars

\* The mutation of AfterSend: what is left goes to the back of the queue.
AfterSendToBack(q, next_msg, sent) ==
  IF sent < Len(next_msg)
  THEN q \o <<SubSeq(next_msg, sent + 1, Len(next_msg))>>
  ELSE q

\* Lines 132-136: s.send(next_msg) takes the first sent bytes; what is left
\* of the message goes back to the front of the queue.
AfterSend(q, next_msg, sent) ==
  IF sent < Len(next_msg)
  THEN <<SubSeq(next_msg, sent + 1, Len(next_msg))>> \o q
  ELSE q

\* Lines 126-136: one socket of writable.
SelectWritable ==
  /\ strategy = "select"
  /\ srvPc = "loop"
  /\ ready.readable = <<>>
  /\ ready.writable # <<>>
  /\ LET s == Head(ready.writable)
         rest == [ready EXCEPT !.writable = Tail(@)]
     IN  IF s \notin DOMAIN message_queues
         THEN \* KeyError
              /\ srvPc' = "raised"
              /\ UNCHANGED <<got, outputs, message_queues, ready>>
         ELSE IF message_queues[s] = <<>>
         THEN \* queue.Empty
              /\ outputs' = ListRemove(outputs, s)
              /\ ready' = rest
              /\ UNCHANGED <<srvPc, got, message_queues>>
         ELSE LET next_msg == Head(message_queues[s])
                  q == Tail(message_queues[s])
              IN  IF cState[s] = "reset"
                  THEN \* OSError from send
                       /\ srvPc' = "raised"
                       /\ message_queues' = [message_queues EXCEPT ![s] = q]
                       /\ UNCHANGED <<got, outputs, ready>>
                  ELSE \E sent \in 1..Len(next_msg) :
                         /\ got' = [got EXCEPT
                                      ![s] = @ \o SubSeq(next_msg, 1, sent)]
                         /\ message_queues' =
                              [message_queues EXCEPT
                                 ![s] = AfterSend(q, next_msg, sent)]
                         /\ ready' = rest
                         /\ UNCHANGED <<srvPc, outputs>>
  /\ UNCHANGED <<strategy, peerVars, sock, hdl, hData, inputs, fd_to_socket,
                 registered, messageCounter>>
  /\ UNCHANGED nonSrvVars

\* Lines 138-143: one socket of exceptional.
SelectExceptional ==
  /\ strategy = "select"
  /\ srvPc = "loop"
  /\ ready.readable = <<>>
  /\ ready.writable = <<>>
  /\ ready.exceptional # <<>>
  /\ LET s == Head(ready.exceptional)
         rest == [ready EXCEPT !.exceptional = Tail(@)]
     IN  IF ~Contains(inputs, s)
         THEN \* ValueError from inputs.remove(s)
              /\ srvPc' = "raised"
              /\ UNCHANGED <<sock, inputs, outputs, message_queues, ready>>
         ELSE /\ inputs' = ListRemove(inputs, s)
              /\ outputs' = IF Contains(outputs, s)
                            THEN ListRemove(outputs, s) ELSE outputs
              /\ sock' = [sock EXCEPT ![s] = "closed"]
              /\ message_queues' = DictDel(message_queues, s)
              /\ ready' = rest
              /\ UNCHANGED srvPc
  /\ UNCHANGED <<strategy, peerVars, got, hdl, hData, fd_to_socket,
                 registered, messageCounter>>
  /\ UNCHANGED nonSrvVars

SelectNext ==
  \/ SelectCall
  \/ SelectReadable
  \/ SelectWritable
  \/ SelectExceptional

(***************************************************************************)
(* handle_new_connections_poll (lines 146 to 196).  One step calls         *)
(* poller.poll; each event it returned is handled in one step, which runs  *)
(* the three tests of the flag in the order of the code.  The state the    *)
(* three tests work on is the record                                       *)
(*   [raised, sock, inbox, got, counter, queues, fds, reg].                *)
(***************************************************************************)
\* The flags poll may report for socket s registered with mask.  A failed
\* connection reports POLLERR, with or without the flags of its mask.
PollFlags(s, mask) ==
  IF s # LISTENER /\ cState[s] = "reset"
  THEN {{"POLLERR"} \cup extra : extra \in SUBSET mask}
  ELSE {(IF "POLLIN" \in mask /\ ReadReady(s) THEN {"POLLIN"} ELSE {})
        \cup (IF "POLLOUT" \in mask /\ WriteReady(s)
              THEN {"POLLOUT"} ELSE {})}

\* The events of the registered sockets 0..n that report a flag, by
\* ascending descriptor; flags[s] is what socket s reports.
RECURSIVE PollEvents(_, _)
PollEvents(n, flags) ==
  IF n < 0 THEN <<>>
  ELSE PollEvents(n - 1, flags)
       \o (IF n \in DOMAIN flags /\ flags[n] # {}
           THEN <<<<n, flags[n]>>>> ELSE <<>>)

\* Line 157: poller.poll(timeout) returning at least one event.
PollCall ==
  /\ strategy = "poll"
  /\ srvPc = "loop"
  /\ ready = <<>>
  /\ \E flags \in [DOMAIN registered -> SUBSET {"POLLIN", "POLLOUT", "POLLERR"}] :
       /\ \A s \in DOMAIN registered : flags[s] \in PollFlags(s, registered[s])
       /\ PollEvents(MaxConns, flags) # <<>>
       /\ ready' = PollEvents(MaxConns, flags)
  /\ UNCHANGED <<strategy, srvPc, peerVars, got, sock, hdl, hData, inputs,
                 outputs, message_queues, fd_to_socket, registered,
                 messageCounter>>
  /\ UNCHANGED nonSrvVars

\* Lines 161-181: the flag has POLLIN or POLLPRI.
PollIn(st, s) ==
  IF s = LISTENER
  THEN LET c == CHOOSE c \in Conns : NextInBacklog(c)
       IN  [st EXCEPT !.sock = [@ EXCEPT ![c] = "open"],
                      !.fds = @ \cup {c},
                      !.reg = DictSet(@, c, {"POLLIN"}),
                      !.queues = DictSet(@, c, <<>>)]
  ELSE IF cState[s] = "reset"
  THEN \* OSError from recv
       [st EXCEPT !.raised = TRUE]
  ELSE IF st.inbox[s] # <<>>
  THEN [st EXCEPT !.inbox = [@ EXCEPT ![s] = <<>>],
                  !.counter = @ + 1,
                  !.queues = [@ EXCEPT ![s] = Append(@, st.inbox[s])],
                  !.reg = [@ EXCEPT ![s] = {"POLLIN", "POLLOUT"}]]
  ELSE [st EXCEPT !.reg = DictDel(@, s),
                  !.sock = [@ EXCEPT ![s] = "closed"],
                  !.queues = DictDel(@, s)]

\* Lines 182-192: the flag has POLLOUT; send takes sent bytes if it can.
PollOut(st, s, sent) ==
  IF s \notin DOMAIN st.queues
  THEN \* KeyError
       [st EXCEPT !.raised = TRUE]
  ELSE IF st.queues[s] = <<>>
  THEN \* queue.Empty
       [st EXCEPT !.reg = [@ EXCEPT ![s] = {"POLLIN"}]]
  ELSE LET next_msg == Head(st.queues[s])
           q == Tail(st.queues[s])
           n == IF sent < Len(next_msg) THEN sent ELSE Len(next_msg)
       IN  IF cState[s] = "reset"
           THEN \* OSError from send
                [st EXCEPT !.raised = TRUE,
                           !.queues = [@ EXCEPT ![s] = q]]
           ELSE [st EXCEPT
                   !.got = [@ EXCEPT ![s] = @ \o SubSeq(next_msg, 1, n)],
                   !.queues = [@ EXCEPT ![s] = AfterSend(q, next_msg, n)]]

\* Lines 193-196: the flag has POLLERR.
PollErr(st, s) ==
  IF s \notin DOMAIN st.reg
  THEN \* KeyError from poller.unregister(s)
       [st EXCEPT !.raised = TRUE]
  ELSE [st EXCEPT !.reg = DictDel(@, s),
                  !.sock = [@ EXCEPT ![s] = "closed"],
                  !.queues = DictDel(@, s)]

\* The byte counts s.send may return in the event of socket s: 1 up to the
\* length of the message at the head of its queue, after the recv.
SendCounts(s) ==
  IF s = LISTENER THEN {1}
  ELSE LET q == (IF s \in DOMAIN message_queues
                 THEN message_queues[s] ELSE <<>>)
                \o (IF inbox[s] # <<>> THEN <<inbox[s]>> ELSE <<>>)
       IN  IF q = <<>> THEN {1} ELSE 1..Len(Head(q))

\* Lines 158-196: one event of events.
PollEvent ==
  /\ strategy = "poll"
  /\ srvPc = "loop"
  /\ ready # <<>>
  /\ LET s == Head(ready)[1]
         flag == Head(ready)[2]
         st0 == [raised |-> FALSE, sock |-> sock, inbox |-> inbox,
                 got |-> got, counter |-> messageCounter,
                 queues |-> message_queues, fds |-> fd_to_socket,
                 reg |-> registered]
     IN  \E sent \in SendCounts(s) :
           LET st1 == IF "POLLIN" \in flag THEN PollIn(st0, s) ELSE st0
               st2 == IF ~st1.raised /\ "POLLOUT" \in flag
                      THEN PollOut(st1, s, sent) ELSE st1
               st3 == IF ~st2.raised /\ "POLLERR" \in flag
                      THEN PollErr(st2, s) ELSE st2
           IN  /\ srvPc' = IF st3.raised THEN "raised" ELSE srvPc
               /\ ready' = IF st3.raised THEN ready ELSE Tail(ready)
               /\ sock' = st3.sock
               /\ inbox' = st3.inbox
               /\ got' = st3.got
               /\ messageCounter' = st3.counter
               /\ message_queues' = st3.queues
               /\ fd_to_socket' = st3.fds
               /\ registered' = st3.reg
  /\ UNCHANGED <<strategy, cState, urgent, sentLog, hdl, hData, inputs,
                 outputs>>
  /\ UNCHANGED nonSrvVars

PollNext == PollCall \/ PollEvent

ServerSpecInit ==
  /\ MenuInit /\ FilterIdle /\ PQIdle /\ UpIdle /\ RxIdle /\ ThrRestIdle
  /\ DsIdle
  /\ ServerInit

Peer ==
  \/ \E c \in Conns : Connect(c)
  \/ \E c \in Conns : \E n \in 1..MaxWrite : ClientSend(c, n)
  \/ \E c \in Conns : ClientQuery(c)
  \/ \E c \in Conns : ClientUrgent(c)
  \/ \E c \in Conns : ClientShutdown(c)
  \/ \E c \in Conns : ClientReset(c)

BlockingNext ==
  \/ \E c \in Conns : AcceptBlocking(c)
  \/ \E c \in Conns : AcceptTLSFails(c)
  \/ PoolReturns
  \/ \E c \in Conns : HandlerRecv(c)
  \/ \E c \in Conns : HandlerSend(c)

ServerNext == Peer \/ BlockingNext \/ SelectNext \/ PollNext

ServerSpec == ServerSpecInit /\ [][ServerNext]_vars

\* The loop of the select and poll strategies, the accept loop and every
\* handle_client that can take a step does: the server's threads are
\* scheduled.  What the peers do, and when, is not the program's to decide.
ServerFairSpec ==
  /\ ServerSpec
  /\ WF_vars(SelectNext)
  /\ WF_vars(PollNext)
  /\ WF_vars(\E c \in Conns : AcceptBlocking(c))
  /\ WF_vars(PoolReturns)
  /\ \A c \in Conns : WF_vars(HandlerRecv(c) \/ HandlerSend(c))


\* The response frame to a query that matches no record: the count 0 in 4
\* bytes, and no record.
EmptyResult == PackI(0).bytes

\* C21: a connection that sent one QUERY frame, which the server has read,
\* and then closed its sending side has been answered, when the server has
\* closed it, with the 4-byte
\* result count M followed by the M matching records: M = 0, as no UPLOAD
\* frame has stored a record.
C21_QueryAnswered ==
  \A c \in Conns :
    (/\ sentLog[c] = QueryFrame(QueryText)
     /\ inbox[c] = <<>>
     /\ cState[c] = "shut"
     /\ sock[c] = "closed"
     /\ Serving)
    => got[c] = EmptyResult


\* s is the start of t.
IsPrefix(s, t) == Len(s) <= Len(t) /\ s = SubSeq(t, 1, Len(s))

\* The bytes of peer c that recv has returned, on a connection that was
\* not reset.
ReadFrom(c) == SubSeq(sentLog[c], 1, Len(sentLog[c]) - Len(inbox[c]))

\* C22: in every strategy each message received on a connection produces
\* exactly one response on the same connection, in request order, never
\* with another connection's data: what a peer has been sent back is the
\* start of what was read from it, and all of it once the server has closed
\* the connection.
C22_OneResponsePerMessage ==
  \A c \in Conns :
    cState[c] # "reset" =>
      /\ IsPrefix(got[c], ReadFrom(c))
      /\ sock[c] = "closed" => got[c] = ReadFrom(c)

\* What the sequential strategy sends back to a peer that sent the bytes
\* sent and then closed its sending side (lines 33-39): every chunk recv
\* returns is sent back whole before the next recv.
SimpleResponse(sent) == sent

\* C23: the strategies are substitutable: a peer that sent its bytes and
\* closed its sending side, also while a response was still pending, has
\* been sent, when the server has read them all and closed the connection,
\* the bytes the sequential strategy sends.
C23_SameBytesInEveryStrategy ==
  \A c \in Conns :
    (/\ cState[c] = "shut"
     /\ c \notin urgent
     /\ inbox[c] = <<>>
     /\ sock[c] = "closed")
    => got[c] = SimpleResponse(sentLog[c])


\* The messages of a queue, joined in the order of the queue.
RECURSIVE Joined(_)
Joined(q) == IF q = <<>> THEN <<>> ELSE Head(q) \o Joined(Tail(q))

\* The connection of peer c has a queue holding output.
OutputPending(c) ==
  c \in DOMAIN message_queues /\ message_queues[c] # <<>>

\* Select and poll: on every connection that has a queue, what the peer has
\* been sent, followed by what the queue holds, is what was read from it.
NothingLostOrReordered ==
  \A c \in DOMAIN message_queues :
    cState[c] # "reset" => got[c] \o Joined(message_queues[c]) = ReadFrom(c)

\* C27: in the select and poll loops what a send did not take goes back to
\* the front of the connection's queue: nothing is duplicated, dropped or
\* reordered, and while the connection stays open and the loop runs, the
\* bytes left are eventually delivered.
C27_PartialWriteResumed ==
  /\ []NothingLostOrReordered
  /\ \A c \in Conns :
       OutputPending(c) ~> (~OutputPending(c) \/ srvPc = "raised")

\* A send took the first bytes of the query frame; the rest is queued.
C27_Witness ==
  \E c \in Conns :
    /\ sentLog[c] = QueryFrame(QueryText)
    /\ got[c] # <<>>
    /\ OutputPending(c)
    /\ got[c] \o Head(message_queues[c]) = QueryFrame(QueryText)


\* C28: in the select and poll loops the close or the failure of one
\* connection never raises out of the loop, also when the connection has
\* queued output or is ready for several kinds of event in one round.
C28_LoopSurvives ==
  strategy \in {"select", "poll"} => srvPc = "loop"

\* C29: a failing recv or send on a connection, or a failing TLS setup in
\* the thread-pool strategy, leaves the accept loop of the simple, threads
\* and thread-pool strategies running.
C29_AcceptLoopRuns ==
  strategy \in Blocking => srvPc \in {"accept", "handling"}

\* C30: a connection whose socket the server has closed has no state left:
\* no outbound queue, no place in inputs or outputs, no poll registration
\* and no entry in the descriptor map.
C30_ClosedAndReleased ==
  \A c \in Conns :
    sock[c] = "closed" =>
      /\ c \notin DOMAIN message_queues
      /\ ~Contains(inputs, c)
      /\ ~Contains(outputs, c)
      /\ c \notin DOMAIN registered
      /\ c \notin fd_to_socket


(***************************************************************************)
(* handle_new_connections_thread_pool: the executor and its shutdown.      *)
(* The connections are counted, not told apart: those still in the queue   *)
(* of the executor and those running in a worker, each by whether the peer *)
(* has closed (or reset) the connection yet.                               *)
(***************************************************************************)
\* shutdown(wait=False): the with block is left at once.
DrainedOrNot(q, w) == TRUE

\* Line 215, the end of the with block: ThreadPoolExecutor.__exit__ calls
\* shutdown(wait=True), which returns when the queue q holds no work item
\* and no worker of w runs one.
Drained(q, w) == q.open + q.eof + w.open + w.eof = 0

\* Calls of handle_client submitted so far.
Submitted ==
  work_queue.open + work_queue.eof + workers.open + workers.eof + finished

\* Line 214-215: the executor is created, the accept loop starts.
PoolInit ==
  /\ poolPc = "accept"
  /\ work_queue = [open |-> 0, eof |-> 0]
  /\ workers = [open |-> 0, eof |-> 0]
  /\ finished = 0

\* Lines 218-221: accept() returns a connection, setup_ssl wraps it and
\* pool.submit queues handle_client(conn).
Submit ==
  /\ poolPc = "accept"
  /\ Submitted < MaxTasks
  /\ work_queue' = [work_queue EXCEPT !.open = @ + 1]
  /\ UNCHANGED <<poolPc, workers, finished>>
  /\ UNCHANGED <<appVars, htVars, stVars>>

\* Lines 218-223: accept() or setup_ssl raises (a failed handshake, a
\* KeyboardInterrupt); the bare except prints 'Shutting down
\* gracefully...' and the with block is left.
AcceptRaises ==
  /\ poolPc = "accept"
  /\ poolPc' = "draining"
  /\ UNCHANGED <<work_queue, workers, finished>>
  /\ UNCHANGED <<appVars, htVars, stVars>>

\* Line 215: one of the at most max_workers workers takes the next work
\* item of the queue, before the shutdown and during it.
WorkerTakes ==
  /\ poolPc \in {"accept", "draining"}
  /\ workers.open + workers.eof < max_workers
  /\ \/ /\ work_queue.open > 0
        /\ work_queue' = [work_queue EXCEPT !.open = @ - 1]
        /\ workers' = [workers EXCEPT !.open = @ + 1]
     \/ /\ work_queue.eof > 0
        /\ work_queue' = [work_queue EXCEPT !.eof = @ - 1]
        /\ workers' = [workers EXCEPT !.eof = @ + 1]
  /\ UNCHANGED <<poolPc, finished>>
  /\ UNCHANGED <<appVars, htVars, stVars>>

\* The peer of a submitted connection closes it.
PeerCloses ==
  /\ poolPc \in {"accept", "draining"}
  /\ \/ /\ work_queue.open > 0
        /\ work_queue' = [open |-> work_queue.open - 1,
                          eof |-> work_queue.eof + 1]
        /\ UNCHANGED workers
     \/ /\ workers.open > 0
        /\ workers' = [open |-> workers.open - 1, eof |-> workers.eof + 1]
        /\ UNCHANGED work_queue
  /\ UNCHANGED <<poolPc, finished>>
  /\ UNCHANGED <<appVars, htVars, stVars>>

\* Lines 204-212: handle_client leaves its loop when recv returns no data
\* (or raises), that is when the peer has closed; until then it echoes.
HandleClientReturns ==
  /\ workers.eof > 0
  /\ workers' = [workers EXCEPT !.eof = @ - 1]
  /\ finished' = finished + 1
  /\ UNCHANGED <<poolPc, work_queue>>
  /\ UNCHANGED <<appVars, htVars, stVars>>

\* Line 215: the with block ends and the strategy returns.
PoolExit ==
  /\ poolPc = "draining"
  /\ Drained(work_queue, workers)
  /\ poolPc' = "returned"
  /\ UNCHANGED <<work_queue, workers, finished>>
  /\ UNCHANGED <<appVars, htVars, stVars>>

PoolSpecInit ==
  /\ MenuInit /\ FilterIdle /\ PQIdle /\ UpIdle /\ RxIdle /\ ThrIdle
  /\ SrvIdle /\ PoolInit /\ HtIdle /\ StIdle

PoolNext ==
  \/ Submit
  \/ AcceptRaises
  \/ WorkerTakes
  \/ PeerCloses
  \/ HandleClientReturns
  \/ PoolExit

PoolSpec == PoolSpecInit /\ [][PoolNext]_vars

\* The workers and the thread leaving the with block are scheduled.  When
\* a peer closes, and whether one ever does, is not the program's to
\* decide.
PoolFairSpec ==
  /\ PoolSpec
  /\ WF_vars(WorkerTakes)
  /\ WF_vars(HandleClientReturns)
  /\ WF_vars(PoolExit)

\* C31: once the accept loop of the thread-pool strategy has stopped no
\* connection is submitted any more; a submitted connection, running or
\* still queued, is never dropped: it leaves the queue only into a worker,
\* and a worker only when its peer has closed; and the strategy has
\* returned only when every submitted connection has been served to its
\* end.
C31_PoolDrains ==
  /\ [][poolPc # "accept" => Submitted' = Submitted]_vars
  /\ [][/\ Submitted' >= Submitted
        /\ finished' >= finished
        /\ finished' # finished =>
             /\ workers.eof > 0
             /\ workers'.open = workers.open
             /\ work_queue' = work_queue]_vars
  /\ [](poolPc = "returned" => finished = Submitted)

\* The accept loop has stopped while every worker is busy and a connection
\* is still queued.
C31_Witness ==
  /\ poolPc = "draining"
  /\ workers.open + workers.eof = max_workers
  /\ work_queue.open > 0

\* C32: after the accept loop has stopped, the strategy returns.
C32_ShutdownTerminates == (poolPc = "draining") ~> (poolPc = "returned")


(***************************************************************************)
(* ds.HashTable                                                            *)
(***************************************************************************)
HtKeys == {"key1", "key2"}
HtValues == {"value1", "value2"}

\* Line 51: self.table = [None] * buckets.  A bucket that is None is
\* written <<>>: insert never leaves an empty list in a bucket.
HashTable_init(buckets) == [i \in 1..buckets |-> <<>>]

\* Lines 53-55: hash(key) % len(self.table), as an index from 1.
HashTable_hash(tbl, key) == (hashOf[key] % Len(tbl)) + 1

\* Where the loops of lines 63 and 87 find key in the list l: the indices
\* of its pairs.
FoundAt(l, key) == {j \in 1..Len(l) : l[j][1] = key}

\* Lines 57-68: insert.  For a key found in its bucket, line 66 assigns
\* the value to the loop variable v and line 67 returns: the list is as it
\* was.
HashTable_insert(tbl, key, value) ==
  LET i == HashTable_hash(tbl, key)
  IN  IF tbl[i] = <<>>
      THEN [tbl EXCEPT ![i] = << <<key, value>> >>]
      ELSE IF FoundAt(tbl[i], key) # {}
           THEN tbl
           ELSE [tbl EXCEPT ![i] = Append(@, <<key, value>>)]

\* Lines 81-90: get, the value of the first pair of the bucket with the
\* key, None if there is none.
HashTable_get(tbl, key) ==
  LET l == tbl[HashTable_hash(tbl, key)]
  IN  IF FoundAt(l, key) = {}
      THEN "None"
      ELSE l[CHOOSE j \in FoundAt(l, key) :
               \A k \in FoundAt(l, key) : j <= k][2]

\* HashTable(buckets), in a process whose hash() gives the keys any values.
HashInit ==
  /\ \E buckets \in 1..MaxBuckets : table = HashTable_init(buckets)
  /\ hashOf \in [HtKeys -> 0..MaxHash]
  /\ inserted = [k \in HtKeys |-> "None"]

\* A call insert(key, value).
Insert(key, value) ==
  /\ table' = HashTable_insert(table, key, value)
  /\ inserted' = [inserted EXCEPT ![key] = value]
  /\ UNCHANGED hashOf
  /\ UNCHANGED <<appVars, poolVars, stVars>>

HashSpecInit ==
  /\ MenuInit /\ FilterIdle /\ PQIdle /\ UpIdle /\ RxIdle /\ ThrIdle
  /\ SrvIdle /\ PoolIdle /\ HashInit /\ StIdle

HashNext == \E key \in HtKeys : \E value \in HtValues : Insert(key, value)

HashSpec == HashSpecInit /\ [][HashNext]_vars

\* C33: after any sequence of insert calls, with any bucket count and any
\* hash values, get(k) is the value most recently inserted for k, and None
\* for a key never inserted.
C33_GetReturnsLastInserted ==
  \A k \in HtKeys : HashTable_get(table, k) = inserted[k]


(***************************************************************************)
(* ds.Stack.popMany                                                        *)
(***************************************************************************)
StItemPool == {"item1", "item2"}

\* The index from 0 at which the slice [-n:] of a list of len items
\* starts, n >= 0: -0 is 0, the start of the list, and a start before the
\* list is the start of the list.
SliceStart(len, n) == IF n = 0 \/ n > len THEN 0 ELSE len - n

\* Lines 37-41: popMany.  result = self.stack[-n:]; del self.stack[-n:].
Stack_popMany(stack, n) ==
  [result |-> SubSeq(stack, SliceStart(Len(stack), n) + 1, Len(stack)),
   stack |-> SubSeq(stack, 1, SliceStart(Len(stack), n))]

\* Stack().
StackInit ==
  /\ stItems = <<>>
  /\ popArg = <<>>
  /\ popResult = <<>>

\* A call push(item).
Push(item) ==
  /\ Len(stItems) < MaxStack
  /\ stItems' = Stack_push(stItems, item)
  /\ UNCHANGED <<popArg, popResult>>
  /\ UNCHANGED <<appVars, poolVars, htVars>>

\* A call popMany(n).
PopMany(n) ==
  /\ stItems' = Stack_popMany(stItems, n).stack
  /\ popResult' = Stack_popMany(stItems, n).result
  /\ popArg' = <<n>>
  /\ UNCHANGED <<appVars, poolVars, htVars>>

StackSpecInit ==
  /\ MenuInit /\ FilterIdle /\ PQIdle /\ UpIdle /\ RxIdle /\ ThrIdle
  /\ SrvIdle /\ PoolIdle /\ HtIdle /\ StackInit

StackNext ==
  \/ \E item \in StItemPool : Push(item)
  \/ \E n \in 0..MaxStack : PopMany(n)

StackSpec == StackSpecInit /\ [][StackNext]_vars

\* C34: popMany(n) with 0 <= n <= len(stack) returns the n items pushed
\* last, in the order they were pushed, and leaves the stack n items
\* shorter with the other items as they were.
C34_PopManyTakesLastN ==
  [][\A n \in 0..Len(stItems) :
       PopMany(n) =>
         /\ popResult' = SubSeq(stItems, Len(stItems) - n + 1, Len(stItems))
         /\ stItems' = SubSeq(stItems, 1, Len(stItems) - n)]_vars


\* The socket the select loop handles next, of those reported writable, is
\* a connection in outputs whose outbound queue is empty.
WritableOnEmptyQueue(s) ==
  /\ strategy = "select"
  /\ ready.readable = <<>>
  /\ ready.writable # <<>>
  /\ s = Head(ready.writable)
  /\ Contains(outputs, s)
  /\ s \in DOMAIN message_queues
  /\ message_queues[s] = <<>>

\* The event the poll loop handles next reports POLLOUT, and nothing to
\* read, for a connection whose outbound queue is empty.
PollOutOnEmptyQueue(s) ==
  /\ strategy = "poll"
  /\ ready # <<>>
  /\ s = Head(ready)[1]
  /\ "POLLOUT" \in Head(ready)[2]
  /\ "POLLIN" \notin Head(ready)[2]
  /\ s \in DOMAIN message_queues
  /\ message_queues[s] = <<>>

\* C35: when the select loop handles a writable connection of outputs
\* whose outbound queue is empty, the connection leaves outputs and nothing
\* is sent on it; when the poll loop handles POLLOUT for a connection
\* whose outbound queue is empty, nothing is sent on it and it stays
\* registered for POLLIN only (or is unregistered, when the same event
\* reports POLLERR).
C35_NoWriteInterestOnEmptyQueue ==
  [][\A s \in Conns :
       /\ (SelectWritable /\ WritableOnEmptyQueue(s)) =>
            /\ ~Contains(outputs', s)
            /\ got' = got
            /\ message_queues' = message_queues
       /\ (PollEvent /\ PollOutOnEmptyQueue(s)) =>
            /\ got' = got
            /\ message_queues' = DictDel(message_queues, s)
               \/ message_queues' = message_queues
            /\ IF "POLLERR" \in Head(ready)[2]
               THEN s \notin DOMAIN registered'
               ELSE registered'[s] = {"POLLIN"}]_vars

\* The select loop has echoed all a connection sent and found its queue
\* empty: the connection is open, in inputs and not in outputs.
C35_Witness ==
  /\ strategy = "select"
  /\ \E c \in Conns :
       /\ sock[c] = "open"
       /\ got[c] # <<>>
       /\ got[c] = sentLog[c]
       /\ ~Contains(outputs, c)

\* The poll loop is about to call poller.poll.
PollRoundStarts == strategy = "poll" /\ srvPc = "loop" /\ ready = <<>>

\* The select loop is about to call select.select.
SelectRoundStarts ==
  strategy = "select" /\ srvPc = "loop" /\ ready = NothingReady

\* C36: when the select loop calls select.select, every open connection
\* with a non-empty outbound queue is in outputs; when the poll loop calls
\* poller.poll, every such connection is registered with POLLOUT.
C36_QueuedOutputIsRegistered ==
  \A c \in Conns :
    (/\ sock[c] = "open"
     /\ c \in DOMAIN message_queues
     /\ message_queues[c] # <<>>)
    => /\ SelectRoundStarts => Contains(outputs, c)
       /\ PollRoundStarts =>
            c \in DOMAIN registered /\ "POLLOUT" \in registered[c]

\* A round of the select loop starts with the rest of a partly sent
\* message queued on a connection.
C36_Witness ==
  /\ SelectRoundStarts
  /\ \E c \in Conns :
       /\ sock[c] = "open"
       /\ got[c] # <<>>
       /\ OutputPending(c)


\* C37: when the notify_100 thread has been notified and when it has
\* resumed from condition.wait(), messageCounter is at least 100, and the
\* thread never prints 'Error: notify_100() called before 100 messages
\* received'.
C37_ResumesAtThreshold ==
  /\ wPc \in {"notified", "woken"} => messageCounter >= THRESHOLD
  /\ wOut # "error"

\* notify_100 has resumed from wait() and is about to test the counter.
C37_Witness == wPc = "woken"

=============================================================================
